---------------------------- MODULE Spec2Model ----------------------------
(***************************************************************************)
(* Model of the heat-pump calculator: the hourly dispatch simulation of    *)
(* energy/energy_model.py (model_building), its monthly and annual         *)
(* aggregation (monthly_to_annual_results, general/dict2d.py,              *)
(* general/utils.py) and the cash-flow analysis of econ/econ.py.           *)
(*                                                                         *)
(* Numbers are fixed-point integers.  Units used throughout:               *)
(*   temperatures      tenths of a degree F        (70.0 F  = 700)         *)
(*   ua_per_ft2        hundredths of Btu/h/F/ft2   (0.19    = 19)          *)
(*   fractions         percent                     (0.5     = 50)          *)
(*   COP               hundredths                  (1.58    = 158)         *)
(*   loads, capacity   Btu/h (the code's division by 1e6 into MMBtu is a   *)
(*                     change of unit and is not applied)                  *)
(*   hp_kwh            hundredths of a kWh                                 *)
(* A quotient the code may leave undefined is kept as a record             *)
(* [num, den]: den = 0 is the float NaN (num = 0) or Infinity.             *)
(* An optional value is None (the empty tuple) or Some(v).                 *)
(***************************************************************************)
EXTENDS Integers, Sequences, FiniteSets, TLC

VARIABLES
    pc,                 \* position of the computation being run
    err,                \* the exception raised, "" when none
    inp,                \* model_building: the BuildingDescription
    tmy,                \* the site's hourly weather rows
    dfh,                \* model_building: hourly frame (weather + running, cop, max_hp_output)
    hp_load,            \* hourly loop: heat pump load list
    conventional_load,  \* hourly loop: conventional load list
    hp_capacity_used,   \* hourly loop: fraction of capacity used list
    hourly,             \* the hourly result columns assigned after the loop
    dfm,                \* monthly summary frame
    heap,               \* the dict objects of the monthly fuel-use maps and of the Dict2d stores
    df_monthly,         \* monthly_to_annual_results: the monthly frame it is given
    annual,             \* monthly_to_annual_results: the annual series it returns
    net_cash,           \* analyze_cash_flow: the total of the cash flows
    results,            \* analyze_cash_flow: the results dictionary; fit_model: the output returned
    cache,              \* fit_model_json_input: the lru_cache entries, least recently used first
    evicted,            \* the key of the entry the cache discarded last
    calls,              \* the calls under way or made: each call's position, input and locals
    shared              \* the site's weather frame that every call for the site is handed

\* model_building
bvars == <<inp, tmy, dfh, hp_load, conventional_load, hp_capacity_used, hourly, dfm>>

\* monthly_to_annual_results
avars == <<heap, df_monthly, annual>>

\* analyze_cash_flow (its inputs are held in inp)
evars == <<net_cash, results>>

\* fit_model (its input is held in inp, its objects in heap, its output in results)
fvars == <<cache, evicted>>

\* model_building calls that run at the same time for one climate site
svars == <<calls, shared>>

vars == <<pc, err, bvars, avars, evars, fvars, svars>>

-----------------------------------------------------------------------------
(* Optional values and small helpers *)

None == <<>>

Some(v) == <<v>>

IsNone(o) == Len(o) = 0

Val(o) == o[1]

Max(a, b) == IF a >= b THEN a ELSE b

Min(a, b) == IF a <= b THEN a ELSE b

RECURSIVE SumSeq(_)
SumSeq(s) == IF Len(s) = 0 THEN 0 ELSE Head(s) + SumSeq(Tail(s))

RECURSIVE GCD(_, _)
GCD(a, b) == IF b = 0 THEN a ELSE GCD(b, a % b)

RECURSIVE Pow(_, _)
Pow(b, e) == IF e = 0 THEN 1 ELSE b * Pow(b, e - 1)

\* An unevaluated float quotient n / d.
Ratio(n, d) == [num |-> n, den |-> d]

IsNaN(r) == r.den = 0 /\ r.num = 0

IsFinite(r) == r.den # 0

\* r1 <= r2 for two finite quotients
RatioLeq(r1, r2) ==
    IF (r1.den > 0) = (r2.den > 0)
    THEN r1.num * r2.den <= r2.num * r1.den
    ELSE r1.num * r2.den >= r2.num * r1.den

-----------------------------------------------------------------------------
(* Bounds of the model *)

\* number of calendar days in the modelled weather year (365 in the data)
NumDays == 3

\* number of hourly rows per calendar day (24 in the data)
HoursPerDay == 2

NumHours == NumDays * HoursPerDay

\* The scaled calendar: day 1 is month 1, later days pair up into months 2, 3, ...
MonthOfDay(d) == (d \div 2) + 1

NumMonths == MonthOfDay(NumDays)

Months == 1..NumMonths


-----------------------------------------------------------------------------
(* numpy.interp, as the code calls it.  Sequences are 1-based here, the    *)
(* indices j follow numpy's 0-based ones.                                   *)

RECURSIVE LinearSearch(_, _, _)
LinearSearch(key, arr, i) ==
    IF i < Len(arr) /\ key >= arr[i + 1] THEN LinearSearch(key, arr, i + 1) ELSE i - 1

RECURSIVE Bisect(_, _, _, _)
Bisect(key, arr, imin, imax) ==
    IF imin < imax
    THEN LET imid == imin + ((imax - imin) \div 2)
         IN  IF key >= arr[imid + 1]
             THEN Bisect(key, arr, imid + 1, imax)
             ELSE Bisect(key, arr, imin, imid)
    ELSE imin - 1

\* The index search of numpy.interp: -1 left of the array, Len right of it,
\* otherwise the j it takes for arr[j] <= key < arr[j+1].  It assumes arr is
\* increasing and does not check it (8 is its LIKELY_IN_CACHE_SIZE).
binary_search_with_guess(key, arr, guess0) ==
    LET len == Len(arr)
        g1 == IF guess0 > len - 3 THEN len - 3 ELSE guess0
        guess == IF g1 < 1 THEN 1 ELSE g1
    IN  IF key > arr[len] THEN len
        ELSE IF key < arr[1] THEN -1
        ELSE IF len <= 4 THEN LinearSearch(key, arr, 1)
        ELSE IF key < arr[guess + 1]
             THEN IF key < arr[guess]
                  THEN Bisect(key, arr,
                              IF guess > 8 /\ key >= arr[guess - 8 + 1]
                              THEN guess - 8 ELSE 0,
                              guess - 1)
                  ELSE guess - 1
             ELSE IF key < arr[guess + 2] THEN guess
             ELSE IF key < arr[guess + 3] THEN guess + 1
             ELSE Bisect(key, arr, guess + 2,
                         IF guess < len - 8 - 1 /\ key < arr[guess + 8 + 1]
                         THEN guess + 8 ELSE len)

\* The quotient (fp0 * dx + dfp * off) / dx with a denominator that is not negative.
Slope(fp0, dfp, off, dx) ==
    IF dx >= 0 THEN Ratio(fp0 * dx + dfp * off, dx) ELSE Ratio(-(fp0 * dx + dfp * off), -dx)

\* numpy.interp(x, xp, fp) as the quotient num / den: the value
\* fp[j] + (fp[j+1] - fp[j]) / (xp[j+1] - xp[j]) * (x - xp[j]).
NpInterp(x, xp, fp) ==
    IF Len(xp) = 1 THEN Ratio(fp[1], 1)
    ELSE LET j == binary_search_with_guess(x, xp, 0)
         IN  IF j = -1 THEN Ratio(fp[1], 1)
             ELSE IF j = Len(xp) THEN Ratio(fp[Len(xp)], 1)
             ELSE IF j = Len(xp) - 1 THEN Ratio(fp[j + 1], 1)
             ELSE IF xp[j + 1] = x THEN Ratio(fp[j + 1], 1)
             ELSE Slope(fp[j + 1], fp[j + 2] - fp[j + 1], x - xp[j + 1], xp[j + 2] - xp[j + 1])

\* The same value rounded down to the fixed-point grid of fp.
InterpFix(x, xp, fp) ==
    LET r == NpInterp(x, xp, fp) IN r.num \div r.den

-----------------------------------------------------------------------------
(* energy/heat_pump_performance.py *)

\* COP_vs_TEMP: temperatures in tenths of a degree, COPs in hundredths
TEMPS_FIT == <<-200, -140, -100, -62, -19, 20, 60, 108, 142, 181, 220,
               257, 299, 345, 381, 418, 460, 500, 540, 580, 610>>

COPS_FIT == <<106, 121, 130, 139, 149, 158, 170, 184, 193, 203, 213,
              221, 225, 244, 259, 270, 279, 291, 299, 309, 316>>

\* hundredths
BASE_HSPF == 1133

\* tenths of a degree
GROUND_EWT_DELTA_T == 60

\* EWT_COP_ADJ = 0.0113 per degree: 113 hundred-thousandths per tenth of a degree
EWT_COP_ADJ == 113

\* energy/hspf_convert.py
convert_to_hspf(hspf_value, hspf_type) ==
    IF hspf_type = "hspf" THEN hspf_value
    ELSE IF hspf_type = "hspf2_reg4"
    THEN InterpFix(hspf_value, <<775, 825, 1250, 1400, 1600>>, <<936, 955, 1310, 1450, 1622>>)
    ELSE InterpFix(hspf_value, <<625, 725, 1050, 1125, 1500>>, <<962, 1010, 1320, 1360, 1688>>)

\* floor of the square root of n, by bisection on lo <= sqrt(n) < hi
RECURSIVE ISqrt(_, _, _)
ISqrt(n, lo, hi) ==
    IF hi - lo <= 1 THEN lo
    ELSE IF ((lo + hi) \div 2) * ((lo + hi) \div 2) <= n
         THEN ISqrt(n, (lo + hi) \div 2, hi)
         ELSE ISqrt(n, lo, (lo + hi) \div 2)

\* (hspf_old / BASE_HSPF) ** 0.5, or cop_at_32f / cop32_from_study, in hundredths
cop_adj_mult(hp) ==
    IF ~IsNone(hp.hspf) /\ Val(hp.hspf) # 0
    THEN ISqrt((10000 * convert_to_hspf(Val(hp.hspf), hp.hspf_type)) \div BASE_HSPF, 0, 1000)
    ELSE (Val(hp.cop_32f) * 100) \div InterpFix(320, TEMPS_FIT, COPS_FIT)

\* cops_adj = COPS_FIT * cop_adj_mult
CopsAdj(mult) == [i \in 1..Len(COPS_FIT) |-> (COPS_FIT[i] * mult) \div 100]

\* The arrays once cop_adj_mult and cop5F_70F are known:
\* max_capacity_array = cops_adj / cop5F_70F * max_capacity_at_5f
AirSourceArrays(hp, indoor_heat_setpoint, mult, cop5F_70F) ==
    [temps |-> [i \in 1..Len(TEMPS_FIT) |-> TEMPS_FIT[i] + (indoor_heat_setpoint - 700)],
     cops |-> CopsAdj(mult),
     max_capacities |-> [i \in 1..Len(COPS_FIT) |->
                            (((COPS_FIT[i] * mult) \div 100) * Val(hp.max_out_5f)) \div cop5F_70F]]

AirSourceWithMult(hp, indoor_heat_setpoint, mult) ==
    AirSourceArrays(hp, indoor_heat_setpoint, mult, InterpFix(50, TEMPS_FIT, CopsAdj(mult)))

\* returns the three aligned arrays [temps, cops, max_capacities]
air_source_performance(hp, indoor_heat_setpoint) ==
    AirSourceWithMult(hp, indoor_heat_setpoint, cop_adj_mult(hp))

GroundSourceArrays(cop, max_capacity) ==
    [temps |-> TEMPS_FIT,
     cops |-> [i \in 1..Len(TEMPS_FIT) |-> cop],
     max_capacities |-> [i \in 1..Len(TEMPS_FIT) |-> max_capacity]]

\* cop_at_32f * (1.0 + EWT_COP_ADJ * (ewt_temp - 32.0 + 70.0 - indoor_heat_setpoint))
GroundCop(hp, indoor_heat_setpoint, ground_temperature) ==
    (Val(hp.cop_32f)
       * (100000 + EWT_COP_ADJ * ((ground_temperature - GROUND_EWT_DELTA_T) - 320 + 700 - indoor_heat_setpoint)))
    \div 100000

GroundSourceWithCop(hp, cop) ==
    GroundSourceArrays(cop, (Val(hp.max_out_32f) * cop) \div Val(hp.cop_32f))

\* returns the three aligned arrays [temps, cops, max_capacities]
ground_source_performance(hp, indoor_heat_setpoint, ground_temperature) ==
    GroundSourceWithCop(hp, GroundCop(hp, indoor_heat_setpoint, ground_temperature))

-----------------------------------------------------------------------------
(* energy/energy_model.py: constants and helpers *)

\* tenths of a degree
GARAGE_HEATING_SETPT == 550

\* tenths of a degree
GROUND_AIR_DELTA_T == 30

\* square feet by garage_stall_count 0..4
garage_area(stall_count) == <<0, 14 * 22, 22 * 22, 36 * 25, 48 * 28>>[stall_count + 1]

\* temp_depression with the two resistances exchanged.
temp_depression_doors_swapped(ua_per_ft2, balance_point, outdoor_temp, doors_open) ==
    LET r_to_bedroom == IF doors_open THEN 1420 ELSE 424
        temp_delta == balance_point - outdoor_temp
    IN  Ratio(temp_delta * r_to_bedroom * ua_per_ft2, r_to_bedroom * ua_per_ft2 + 100000)

\* Degrees (tenths, as a quotient) that the adjacent rooms are cooler than the main space:
\* temp_delta * r_to_bedroom / (r_to_bedroom + 1.0 / ua_per_ft2), with r in thousandths.
temp_depression(ua_per_ft2, balance_point, outdoor_temp, doors_open) ==
    LET r_to_bedroom == IF doors_open THEN 424 ELSE 1420
        temp_delta == balance_point - outdoor_temp
    IN  Ratio(temp_delta * r_to_bedroom * ua_per_ft2, r_to_bedroom * ua_per_ft2 + 100000)

\* tenths of a degree
temp_depress_tolerance(tol) ==
    CASE tol = "low" -> 20
      [] tol = "med" -> 50
      [] tol = "high" -> 100

\* The rows of one calendar day, in row order (groupby("day_of_year")).
DayRows(rows, d) == SelectSeq(rows, LAMBDA r : r.day_of_year = d)

TempsOf(rows) == [j \in 1..Len(rows) |-> rows[j].db_temp]

\* 5 times the linear interpolation between the order statistics of the sorted
\* s around position 0.2 * (n - 1)
Quantile20x5Sorted(s, k, r) ==
    IF r = 0 THEN 5 * s[k + 1] ELSE 5 * s[k + 1] + r * (s[k + 2] - s[k + 1])

\* pandas Series.quantile(0.2) of x, times 5
Quantile20x5(x) ==
    Quantile20x5Sorted(SortSeq(x, LAMBDA a, b : a < b), (Len(x) - 1) \div 5, (Len(x) - 1) % 5)

\* hp_is_running with a day at exactly the cutoff counted as eligible.
hp_is_running_at_cutoff(x, low_temp_cutoff) == Quantile20x5(x) >= 5 * low_temp_cutoff

\* hp_is_running: the lambda applied to each day's group of hourly temperatures
hp_is_running(x, low_temp_cutoff) == Quantile20x5(x) > 5 * low_temp_cutoff

\* groupby("day_of_year")["db_temp"].transform(hp_is_running) at row i
RunningByDay(hp, rows, i) ==
    IF IsNone(hp.low_temp_cutoff) THEN TRUE
    ELSE hp_is_running(TempsOf(DayRows(rows, rows[i].day_of_year)), Val(hp.low_temp_cutoff))

\* The "running" column for every hourly row (lines 122-136 and 168).
RunningColumn(building, rows) ==
    IF IsNone(building.heat_pump) THEN [i \in 1..Len(rows) |-> FALSE]
    ELSE [i \in 1..Len(rows) |->
             IF ~IsNone(Val(building.heat_pump).off_months)
                /\ rows[i].month \in Val(Val(building.heat_pump).off_months)
             THEN FALSE
             ELSE RunningByDay(Val(building.heat_pump), rows, i)]

\* estimated ground temperature: mean air temperature plus an offset (line 149)
GroundTemp(rows) == (SumSeq(TempsOf(rows)) \div Len(rows)) + GROUND_AIR_DELTA_T

\* The three performance arrays for the building's heat pump (lines 138-155).
PerformanceArrays(building, rows) ==
    IF Val(building.heat_pump).source_type = "air"
    THEN air_source_performance(Val(building.heat_pump), building.indoor_heat_setpoint)
    ELSE ground_source_performance(Val(building.heat_pump), building.indoor_heat_setpoint,
                                   GroundTemp(rows))

\* hundredths of Btu/h/F
ua_home(building) == building.ua_per_ft2 * building.bldg_floor_area

\* thousandths of Btu/h/F: the garage is taken 10% leakier
ua_garage(building) == building.ua_per_ft2 * 11 * garage_area(building.garage_stall_count)

\* 8 F of internal/solar gain at ua_per_ft2 = 0.19, scaled inversely with ua_per_ft2
balance_point_home(building) == building.indoor_heat_setpoint - ((80 * 19) \div building.ua_per_ft2)

balance_point_garage(building) == GARAGE_HEATING_SETPT - ((40 * 19) \div building.ua_per_ft2)

\* Btu per day: 4.23 MMBtu per occupant and year
dhw_load_per_day(building) ==
    IF ~IsNone(building.dhw_fuel_id) THEN (42300 * building.occupant_count) \div 365 ELSE 0

IsHPWH(building) ==
    ~IsNone(building.dhw_fuel_id) /\ Val(building.dhw_fuel_id) = "elec" /\ building.dhw_ef > 100

\* Btu per day of space-heating load a heat pump water heater draws from its room
hpwh_load(building, place) ==
    IF IsHPWH(building) /\ building.dhw_hpwh_source = place
    THEN (dhw_load_per_day(building) * (building.dhw_ef - 100)) \div building.dhw_ef
    ELSE 0

\* Btu/h
home_load(building, db_temp) ==
    (Max(0, balance_point_home(building) - db_temp) * ua_home(building)) \div 1000
    + hpwh_load(building, "main_home") \div 24

garage_load(building, db_temp) ==
    (Max(0, balance_point_garage(building) - db_temp) * ua_garage(building)) \div 10000
    + hpwh_load(building, "garage") \div 24

total_load(building, db_temp) == home_load(building, db_temp) + garage_load(building, db_temp)

\* Whether the adjacent rooms' depression is within the tolerance (line 272).
AdjacentIncluded(building, db_temp) ==
    LET hp == Val(building.heat_pump)
        temp_depress == temp_depression(building.ua_per_ft2, balance_point_home(building),
                                        db_temp, hp.doors_open_to_adjacent)
    IN  temp_depress.num <= temp_depress_tolerance(hp.bedroom_temp_tolerance) * temp_depress.den

\* The possible heat pump load of a running hour before it is limited (lines 251-276).
CandidateLoad(building, db_temp) ==
    LET hp == Val(building.heat_pump)
        exposed == (home_load(building, db_temp) * hp.frac_exposed_to_hp) \div 100
        garage == IF hp.serves_garage THEN garage_load(building, db_temp) ELSE 0
        adjacent == IF AdjacentIncluded(building, db_temp)
                    THEN (home_load(building, db_temp) * hp.frac_adjacent_to_hp) \div 100
                    ELSE 0
    IN  exposed + garage + adjacent

\* limit the heat pump load to its capacity at this temperature (line 279)
LimitToCapacity(hp_ld, max_hp_output) == Min(hp_ld, max_hp_output)

\* hundredths of a kWh: hp_load_mmbtu / cop / 0.003412
HpKwh(hp_load_btu, cop) == (hp_load_btu * 10000) \div (cop * 3412)

\* the last of the sequence
LastRatio(s) == s[Len(s)]

\* The largest of a non-empty sequence of finite quotients (a column's max()).
RECURSIVE MaxRatio(_)
MaxRatio(s) ==
    IF Len(s) = 1 THEN s[1]
    ELSE LET m == MaxRatio(Tail(s)) IN IF RatioLeq(m, s[1]) THEN s[1] ELSE m

\* The rows of one month, in row order (groupby("month")).
MonthRows(rows, hrs, m) ==
    LET idx == SelectSeq([i \in 1..Len(rows) |-> i], LAMBDA i : rows[i].month = m)
    IN  [k \in 1..Len(idx) |-> hrs[idx[k]]]

Column(rows, field) == [i \in 1..Len(rows) |-> rows[i][field]]

-----------------------------------------------------------------------------
(* The inputs the simulation is run on *)

\* Hourly weather rows of the site: NumDays days of HoursPerDay consecutive rows.
WeatherOf(temps) ==
    [i \in 1..NumHours |->
        [db_temp |-> temps[i],
         day_of_year |-> ((i - 1) \div HoursPerDay) + 1,
         month |-> MonthOfDay(((i - 1) \div HoursPerDay) + 1)]]

\* Every hour cold (-20 F) or mild (22 F): the days whose 20th percentile lies
\* between the hours.
MixedWeathers == {WeatherOf(t) : t \in [1..NumHours -> {-200, 220}]}

\* One temperature per day: cold, mild or warm (65 F).
DailyWeathers ==
    {WeatherOf([i \in 1..NumHours |-> t[((i - 1) \div HoursPerDay) + 1]]) :
        t \in [1..NumDays -> {-200, 220, 650}]}

BaseHeatPump ==
    [source_type |-> "air", hspf_type |-> "hspf", hspf |-> Some(1133),
     max_out_5f |-> Some(16700), cop_32f |-> None, max_out_32f |-> None,
     low_temp_cutoff |-> Some(50), off_months |-> None,
     frac_exposed_to_hp |-> 50, frac_adjacent_to_hp |-> 50,
     doors_open_to_adjacent |-> TRUE, bedroom_temp_tolerance |-> "med",
     serves_garage |-> FALSE]

GroundHeatPump ==
    [BaseHeatPump EXCEPT !.source_type = "ground", !.hspf = None, !.max_out_5f = None,
                         !.cop_32f = Some(350), !.max_out_32f = Some(20000)]

ConvSystem(fuel, frac) ==
    [heat_fuel_id |-> Some(fuel), heating_effic |-> 80, aux_elec_use |-> 3, frac_load_served |-> frac]

BaseBuilding ==
    [heat_pump |-> Some(BaseHeatPump),
     conventional_heat |-> <<ConvSystem("oil1", 75), Some(ConvSystem("propane", 25))>>,
     garage_stall_count |-> 1, bldg_floor_area |-> 1000, occupant_count |-> 300,
     indoor_heat_setpoint |-> 700, ua_per_ft2 |-> 19,
     dhw_fuel_id |-> Some("elec"), dhw_ef |-> 62, dhw_hpwh_source |-> "main_home"]

\* Buildings that differ in when the heat pump may run: no cutoff, a cutoff of
\* 5 F, a cutoff at the mild temperature itself.
EligibilityBuildings ==
    {[BaseBuilding EXCEPT !.heat_pump =
          Some([BaseHeatPump EXCEPT !.low_temp_cutoff = c, !.off_months = o])] :
        c \in {None, Some(50), Some(220)}, o \in {None, Some({}), Some({2})}}

\* Buildings that differ in how the load is dispatched to the heat pump.
\* HeatPump puts no constraint on max_out_5f: a negative, a zero and a positive
\* rated output are all accepted.
DispatchBuildings ==
    {[BaseBuilding EXCEPT
          !.heat_pump = Some([BaseHeatPump EXCEPT
                                 !.low_temp_cutoff = None,
                                 !.max_out_5f = Some(mx),
                                 !.frac_exposed_to_hp = fe, !.frac_adjacent_to_hp = fa,
                                 !.doors_open_to_adjacent = d, !.bedroom_temp_tolerance = tol,
                                 !.serves_garage = g])] :
        mx \in {-16700, 0, 16700}, fe \in {0, 50, 100}, fa \in {0, 50, 100},
        d \in BOOLEAN, tol \in {"low", "med", "high"}, g \in BOOLEAN}

\* Heat pump water heaters drawing their heat from the home or from the garage.
HotWaterBuildings ==
    {[BaseBuilding EXCEPT
          !.heat_pump = IF h THEN Some([BaseHeatPump EXCEPT !.low_temp_cutoff = None]) ELSE None,
          !.dhw_ef = 200, !.dhw_hpwh_source = src] :
        h \in BOOLEAN, src \in {"main_home", "garage"}}

\* No heat pump, a ground-source heat pump, a single conventional system.
OtherBuildings ==
    {[BaseBuilding EXCEPT !.heat_pump = None],
     [BaseBuilding EXCEPT !.heat_pump = None, !.garage_stall_count = 0],
     [BaseBuilding EXCEPT !.heat_pump = Some(GroundHeatPump)],
     [BaseBuilding EXCEPT !.heat_pump = None,
                          !.conventional_heat = <<ConvSystem("oil1", 100), None>>]}

Simulations ==
    (EligibilityBuildings \X MixedWeathers)
    \cup (DispatchBuildings \X DailyWeathers)
    \cup (HotWaterBuildings \X DailyWeathers)
    \cup (OtherBuildings \X DailyWeathers)

-----------------------------------------------------------------------------
(* energy/energy_model.py: model_building *)

InitBuilding ==
    /\ pc = "start"
    /\ err = ""
    /\ \E sim \in Simulations : inp = sim[1] /\ tmy = sim[2]
    /\ dfh = <<>>
    /\ hp_load = <<>>
    /\ conventional_load = <<>>
    /\ hp_capacity_used = <<>>
    /\ hourly = <<>>
    /\ dfm = <<>>
    /\ heap = <<>>
    /\ df_monthly = <<>>
    /\ annual = <<>>
    /\ net_cash = <<>>
    /\ results = <<>>
    /\ cache = <<>>
    /\ evicted = <<>>
    /\ calls = <<>>
    /\ shared = <<>>

\* The frame's rows given the running column and the performance arrays.
HourlyFrame(rows, running, perf) ==
    [i \in 1..Len(rows) |->
        [db_temp |-> rows[i].db_temp,
         month |-> rows[i].month,
         day_of_year |-> rows[i].day_of_year,
         running |-> running[i],
         cop |-> InterpFix(rows[i].db_temp, perf.temps, perf.cops),
         max_hp_output |-> InterpFix(rows[i].db_temp, perf.temps, perf.max_capacities)]]

\* Without a heat pump: never running, filler COP 1.0, no output (lines 166-170).
HourlyFrameNoHeatPump(rows) ==
    [i \in 1..Len(rows) |->
        [db_temp |-> rows[i].db_temp,
         month |-> rows[i].month,
         day_of_year |-> rows[i].day_of_year,
         running |-> FALSE,
         cop |-> 100,
         max_hp_output |-> 0]]

\* Lines 115-170: the hourly frame with the running, cop and max_hp_output columns.
PrepareHourlyFrame ==
    /\ pc = "start"
    /\ dfh' = IF IsNone(inp.heat_pump)
              THEN HourlyFrameNoHeatPump(tmy)
              ELSE HourlyFrame(tmy, RunningColumn(inp, tmy), PerformanceArrays(inp, tmy))
    /\ pc' = "loads"
    /\ UNCHANGED <<err, inp, tmy, hp_load, conventional_load, hp_capacity_used, hourly, dfm, avars, evars, fvars, svars>>

\* Lines 210-222: without a heat pump the columns are computed at once.
NoHeatPumpLoads ==
    /\ pc = "loads"
    /\ IsNone(inp.heat_pump)
    /\ hourly' = [i \in 1..Len(dfh) |->
                    [conventional_load_mmbtu |-> home_load(inp, dfh[i].db_temp) + garage_load(inp, dfh[i].db_temp),
                     hp_load_mmbtu |-> 0,
                     hp_capacity_used |-> Ratio(0, 1),
                     hp_kwh |-> 0]]
    /\ pc' = "summary"
    /\ UNCHANGED <<err, inp, tmy, dfh, hp_load, conventional_load, hp_capacity_used, dfm, avars, evars, fvars, svars>>

\* Lines 232-285: one pass of the hourly loop.
HourlyStep ==
    /\ pc = "loads"
    /\ ~IsNone(inp.heat_pump)
    /\ Len(hp_load) < Len(dfh)
    /\ LET h == dfh[Len(hp_load) + 1]
           total == total_load(inp, h.db_temp)
           hp_ld == LimitToCapacity(CandidateLoad(inp, h.db_temp), h.max_hp_output)
       IN  IF ~h.running
           THEN /\ hp_load' = Append(hp_load, 0)
                /\ conventional_load' = Append(conventional_load, total)
                /\ hp_capacity_used' = Append(hp_capacity_used, Ratio(0, 1))
                /\ UNCHANGED <<pc, err>>
           ELSE /\ hp_load' = Append(hp_load, hp_ld)
                /\ conventional_load' = Append(conventional_load, total - hp_ld)
                /\ IF h.max_hp_output = 0
                   THEN \* hp_ld / h.max_hp_output on Python floats
                        /\ pc' = "error"
                        /\ err' = "ZeroDivisionError"
                        /\ UNCHANGED hp_capacity_used
                   ELSE /\ hp_capacity_used' = Append(hp_capacity_used, Ratio(hp_ld, h.max_hp_output))
                        /\ UNCHANGED <<pc, err>>
    /\ UNCHANGED <<inp, tmy, dfh, hourly, dfm, avars, evars, fvars, svars>>

\* Lines 287-292: the lists become columns; heat pump kWh.
AssignColumns ==
    /\ pc = "loads"
    /\ ~IsNone(inp.heat_pump)
    /\ Len(hp_load) = Len(dfh)
    /\ hourly' = [i \in 1..Len(dfh) |->
                    [conventional_load_mmbtu |-> conventional_load[i],
                     hp_load_mmbtu |-> hp_load[i],
                     hp_capacity_used |-> hp_capacity_used[i],
                     hp_kwh |-> HpKwh(hp_load[i], dfh[i].cop)]]
    /\ pc' = "summary"
    /\ UNCHANGED <<err, inp, tmy, dfh, hp_load, conventional_load, hp_capacity_used, dfm, avars, evars, fvars, svars>>

\* frac x load in the fixed point of the loads (fractions are hundredths).
FracOf(frac, load) == (frac * load) \div 100

\* hp_load_frac of a period from its sums (lines 304-306, 605-607)
HpLoadFrac(hp_load_mmbtu, conventional_load_mmbtu) ==
    Ratio(hp_load_mmbtu, hp_load_mmbtu + conventional_load_mmbtu)

\* COP of a period from its sums: hp_load_mmbtu / (hp_kwh * 0.003412) (lines 312, 611)
PeriodCop(hp_load_mmbtu, hp_kwh) == Ratio(hp_load_mmbtu * 100, hp_kwh * 3412)

\* One row of the monthly frame (lines 296-316).
MonthlyRow(m) ==
    LET rows == MonthRows(dfh, hourly, m)
        hp == SumSeq(Column(rows, "hp_load_mmbtu"))
        conv == SumSeq(Column(rows, "conventional_load_mmbtu"))
        kwh == SumSeq(Column(rows, "hp_kwh"))
    IN  [hp_load_mmbtu |-> hp,
         conventional_load_mmbtu |-> conv,
         hp_kwh |-> kwh,
         hp_load_frac |-> HpLoadFrac(hp, conv),
         hp_capacity_used_max |-> MaxRatio(Column(rows, "hp_capacity_used")),
         cop |-> PeriodCop(hp, kwh),
         conventional_load_mmbtu_primary |->
             (inp.conventional_heat[1].frac_load_served * conv) \div 100,
         conventional_load_mmbtu_secondary |->
             (Val(inp.conventional_heat[2]).frac_load_served * conv) \div 100]

\* Lines 296-316: the monthly summary frame.
MonthlySummary ==
    /\ pc = "summary"
    /\ IF IsNone(inp.conventional_heat[2])
       THEN \* inp.conventional_heat[1].frac_load_served on None
            /\ pc' = "error"
            /\ err' = "AttributeError"
            /\ UNCHANGED dfm
       ELSE /\ dfm' = [m \in Months |-> MonthlyRow(m)]
            /\ pc' = "monthly"
            /\ UNCHANGED err
    /\ UNCHANGED <<inp, tmy, dfh, hp_load, conventional_load, hp_capacity_used, hourly, avars, evars, fvars, svars>>

-----------------------------------------------------------------------------
(* Python dicts.  A dict is a function from its keys; the dicts that the   *)
(* code shares or updates in place are objects on the heap, a sequence     *)
(* indexed by address, and an outer dict holds the addresses of its inner  *)
(* dicts.                                                                  *)

EmptyDict == [k \in {} |-> 0]

\* d[k] = v
DictSet(d, k, v) == [x \in (DOMAIN d) \cup {k} |-> IF x = k THEN v ELSE d[x]]

\* d.get(k, default)
DictGet(d, k, default) == IF k \in DOMAIN d THEN d[k] ELSE default

\* The (key1, key2) pairs of a two-level dict given by value.
KeyPairs(m) == UNION {{<<k1, k2>> : k2 \in DOMAIN m[k1]} : k1 \in DOMAIN m}

-----------------------------------------------------------------------------
(* general/dict2d.py.  A Dict2d object is [store |-> address of its outer dict]. *)

\* Dict2d(initial_values): a non-empty dict given becomes the store itself,
\* otherwise the store is a new empty dict.  Returns the heap and the object.
Dict2d(h, initial_values) ==
    IF ~IsNone(initial_values) /\ DOMAIN h[Val(initial_values)] # {}
    THEN [heap |-> h, self |-> [store |-> Val(initial_values)]]
    ELSE [heap |-> Append(h, EmptyDict), self |-> [store |-> Len(h) + 1]]

\* The two assignments of add once the inner dict is known:
\* inner[key2] = inner.get(key2, 0.0) + value; self.store[key1] = inner
AddToInner(h, self, key1, key2, value, inner) ==
    [h EXCEPT ![inner] = DictSet(@, key2, DictGet(@, key2, 0) + value),
              ![self.store] = DictSet(@, key1, inner)]

\* add with the value stored in place of the sum
AddOverwriting(h, self, key1, key2, value) ==
    IF key1 \in DOMAIN h[self.store]
    THEN [h EXCEPT ![h[self.store][key1]] = DictSet(@, key2, value)]
    ELSE [Append(h, EmptyDict) EXCEPT ![Len(h) + 1] = DictSet(@, key2, value),
                                      ![self.store] = DictSet(@, key1, Len(h) + 1)]

\* Dict2d.add: the heap after self.add(key1, key2, value)
Dict2d_add(h, self, key1, key2, value) ==
    IF key1 \in DOMAIN h[self.store]
    THEN AddToInner(h, self, key1, key2, value, h[self.store][key1])
    ELSE AddToInner(Append(h, EmptyDict), self, key1, key2, value, Len(h) + 1)

\* Dict2d.get_all: a deep copy of the store, which shares nothing with the
\* heap and is given by value
Dict2d_get_all(h, self) == [k1 \in DOMAIN h[self.store] |-> h[h[self.store][k1]]]

\* The loops of add_object over the entries of the copy (in any order here,
\* the additions commute).
RECURSIVE AddEntries(_, _, _, _)
AddEntries(h, self, copy, pairs) ==
    IF pairs = {} THEN h
    ELSE LET p == CHOOSE q \in pairs : TRUE
         IN  AddEntries(Dict2d_add(h, self, p[1], p[2], copy[p[1]][p[2]]), self, copy, pairs \ {p})

AddCopy(h, self, copy) == AddEntries(h, self, copy, KeyPairs(copy))

\* Dict2d.add_object: the heap after self.add_object(obj)
Dict2d_add_object(h, self, obj) == AddCopy(h, self, Dict2d_get_all(h, obj))

\* general/utils.py: sum_dicts over dicts given by value
RECURSIVE SumInto(_, _, _)
SumInto(result, d, keys) ==
    IF keys = {} THEN result
    ELSE LET key == CHOOSE k \in keys : TRUE
         IN  SumInto(DictSet(result, key, DictGet(result, key, 0) + d[key]), d, keys \ {key})

RECURSIVE SumDictsFrom(_, _, _)
SumDictsFrom(result, dict_list, i) ==
    IF i > Len(dict_list) THEN result
    ELSE SumDictsFrom(SumInto(result, dict_list[i], DOMAIN dict_list[i]), dict_list, i + 1)

sum_dicts(dict_list) == SumDictsFrom(EmptyDict, dict_list, 1)

-----------------------------------------------------------------------------
(* The monthly frames monthly_to_annual_results is run on *)

\* One month of results; the conventional load is split 75% / 25%.
MonthOf(hp, kwh, conv, cost, co2, used, demand, mmbtu, units, fcost) ==
    [hp_load_mmbtu |-> hp,
     hp_kwh |-> kwh,
     conventional_load_mmbtu |-> conv,
     conventional_load_mmbtu_primary |-> (75 * conv) \div 100,
     conventional_load_mmbtu_secondary |-> (25 * conv) \div 100,
     fuel_total_cost |-> cost,
     co2_lbs |-> co2,
     hp_capacity_used_max |-> used,
     elec_demand |-> demand,
     hp_load_frac |-> Ratio(hp, hp + conv),
     cop |-> Ratio(hp * 100, kwh * 3412),
     fuel_use_mmbtu |-> mmbtu,
     fuel_use_units |-> units,
     fuel_cost |-> fcost]

\* A cold month on the conventional systems, two months with the heat pump
\* running, a summer month, and a month with no fuel use recorded at all.
MonthChoices ==
    {MonthOf(0, 0, 9000, 300, 1500, Ratio(0, 1), 20,
             ("oil1" :> ("space_htg" :> 8)) @@ ("propane" :> ("space_htg" :> 3 @@ "cooking" :> 1))
                 @@ ("elec" :> ("misc_elec" :> 2)),
             ("oil1" :> ("space_htg" :> 60)) @@ ("propane" :> ("space_htg" :> 33 @@ "cooking" :> 11))
                 @@ ("elec" :> ("misc_elec" :> 586)),
             ("oil1" :> 200) @@ ("propane" :> 60) @@ ("elec" :> 40)),
     MonthOf(5000, 60000, 2000, 180, 900, Ratio(3, 4), 35,
             ("oil1" :> ("space_htg" :> 2)) @@ ("elec" :> ("space_htg" :> 2 @@ "misc_elec" :> 2 @@ "dhw" :> 1)),
             ("oil1" :> ("space_htg" :> 15)) @@ ("elec" :> ("space_htg" :> 600 @@ "misc_elec" :> 586 @@ "dhw" :> 293)),
             ("oil1" :> 50) @@ ("elec" :> 130)),
     MonthOf(6000, 50000, 0, 150, 700, Ratio(1, 1), 30,
             ("elec" :> ("space_htg" :> 2 @@ "misc_elec" :> 1)),
             ("elec" :> ("space_htg" :> 500 @@ "misc_elec" :> 293)),
             ("elec" :> 150)),
     MonthOf(0, 0, 0, 20, 100, Ratio(0, 1), 5,
             ("elec" :> ("misc_elec" :> 1 @@ "pv_solar" :> -1)),
             ("elec" :> ("misc_elec" :> 293 @@ "pv_solar" :> -293)),
             ("elec" :> 20)),
     MonthOf(0, 0, 0, 0, 0, Ratio(0, 1), 0, EmptyDict, EmptyDict, EmptyDict)}

\* The heap after a two-level dict given by value is stored on it: its inner
\* dicts first, the outer dict last (at address Len of the result).
RECURSIVE StoreDict(_, _, _, _)
StoreDict(h, m, keys, outer) ==
    IF keys = {} THEN Append(h, outer)
    ELSE LET k == CHOOSE q \in keys : TRUE
         IN  StoreDict(Append(h, m[k]), m, keys \ {k}, DictSet(outer, k, Len(h) + 1))

\* The frame of the months given by value: the fuel_use_mmbtu and
\* fuel_use_units cells hold the addresses of their dicts (lines 543-548).
RECURSIVE StoreFrame(_, _, _)
StoreUnits(h, months, rows, mmbtu_at) ==
    StoreFrame(h, months,
               Append(rows, [months[Len(rows) + 1] EXCEPT !.fuel_use_mmbtu = mmbtu_at,
                                                           !.fuel_use_units = Len(h)]))

StoreMmbtu(h, months, rows) ==
    StoreUnits(StoreDict(h, months[Len(rows) + 1].fuel_use_units,
                         DOMAIN months[Len(rows) + 1].fuel_use_units, EmptyDict),
               months, rows, Len(h))

StoreFrame(h, months, rows) ==
    IF Len(rows) = Len(months) THEN [heap |-> h, rows |-> rows]
    ELSE StoreMmbtu(StoreDict(h, months[Len(rows) + 1].fuel_use_mmbtu,
                              DOMAIN months[Len(rows) + 1].fuel_use_mmbtu, EmptyDict),
                    months, rows)

InitAnnual ==
    /\ pc = "monthly_frame"
    /\ err = ""
    /\ inp = <<>>
    /\ tmy = <<>>
    /\ dfh = <<>>
    /\ hp_load = <<>>
    /\ conventional_load = <<>>
    /\ hp_capacity_used = <<>>
    /\ hourly = <<>>
    /\ dfm = <<>>
    /\ annual = <<>>
    /\ net_cash = <<>>
    /\ results = <<>>
    /\ cache = <<>>
    /\ evicted = <<>>
    /\ calls = <<>>
    /\ shared = <<>>
    /\ \E months \in [Months -> MonthChoices] :
          /\ heap = StoreFrame(<<>>, months, <<>>).heap
          /\ df_monthly = StoreFrame(<<>>, months, <<>>).rows

-----------------------------------------------------------------------------
(* energy/energy_model.py: monthly_to_annual_results *)

\* the last value of the column
ColumnLast(rows, field) == rows[Len(rows)][field]

\* df_monthly[field].sum()
ColumnSum(rows, field) == SumSeq(Column(rows, field))

RECURSIVE MaxSeq(_)
MaxSeq(s) == IF Len(s) = 1 THEN s[1] ELSE Max(s[1], MaxSeq(Tail(s)))

\* annual COP of the heat pump, NaN without heat pump electricity (lines 610-613)
AnnualCop(hp_load_mmbtu, hp_kwh) ==
    IF hp_kwh > 0 THEN PeriodCop(hp_load_mmbtu, hp_kwh) ELSE Ratio(0, 0)

\* One pass of the loop over the months (lines 618-620) for one of the two
\* accumulators: acc.add_object(Dict2d(cell))
AddMonth(made, acc) == Dict2d_add_object(made.heap, acc, made.self)

RECURSIVE SumMonths(_, _, _, _, _)
SumMonths(h, rows, i, mmbtu, units) ==
    IF i > Len(rows) THEN h
    ELSE SumMonths(AddMonth(Dict2d(AddMonth(Dict2d(h, Some(rows[i].fuel_use_mmbtu)), mmbtu),
                                   Some(rows[i].fuel_use_units)),
                            units),
                   rows, i + 1, mmbtu, units)

\* The annual series, given the sums of the summed columns and the heap after the loop.
AnnualSeries(rows, hp, kwh, conv, h, mmbtu, units) ==
    [hp_load_mmbtu |-> hp,
     hp_kwh |-> kwh,
     conventional_load_mmbtu |-> conv,
     conventional_load_mmbtu_primary |-> ColumnSum(rows, "conventional_load_mmbtu_primary"),
     conventional_load_mmbtu_secondary |-> ColumnSum(rows, "conventional_load_mmbtu_secondary"),
     fuel_total_cost |-> ColumnSum(rows, "fuel_total_cost"),
     co2_lbs |-> ColumnSum(rows, "co2_lbs"),
     hp_capacity_used_max |-> MaxRatio(Column(rows, "hp_capacity_used_max")),
     elec_demand |-> MaxSeq(Column(rows, "elec_demand")),
     hp_load_frac |-> HpLoadFrac(hp, conv),
     cop |-> AnnualCop(hp, kwh),
     fuel_use_mmbtu |-> Dict2d_get_all(h, mmbtu),
     fuel_use_units |-> Dict2d_get_all(h, units),
     fuel_cost |-> sum_dicts(Column(rows, "fuel_cost")),
     period |-> "Annual"]

\* The function, given the heap with the two new accumulators fuel_use_mmbtu
\* and fuel_use_units on it.
AnnualWith(h, mmbtu, units) ==
    /\ heap' = SumMonths(h, df_monthly, 1, mmbtu, units)
    /\ annual' = AnnualSeries(df_monthly,
                              ColumnSum(df_monthly, "hp_load_mmbtu"),
                              ColumnSum(df_monthly, "hp_kwh"),
                              ColumnSum(df_monthly, "conventional_load_mmbtu"),
                              heap', mmbtu, units)

MonthlyToAnnualResults ==
    /\ pc = "monthly_frame"
    /\ AnnualWith(Dict2d(Dict2d(heap, None).heap, None).heap,
                  Dict2d(heap, None).self,
                  Dict2d(Dict2d(heap, None).heap, None).self)
    /\ pc' = "annual"
    /\ UNCHANGED <<err, bvars, df_monthly, evars, fvars, svars>>

Init == InitBuilding \/ InitAnnual

Next ==
    \/ PrepareHourlyFrame
    \/ NoHeatPumpLoads
    \/ HourlyStep
    \/ AssignColumns
    \/ MonthlySummary
    \/ MonthlyToAnnualResults

Spec == Init /\ [][Next]_vars

-----------------------------------------------------------------------------
(* econ/models.py: the cash flow items *)

\* InitialAmount.cash_flow
InitialAmount_cash_flow(flow, duration) ==
    [i \in 1..(duration + 1) |-> IF i = 1 THEN flow.amount ELSE 0]

\* the pattern extended with its first value
FitPatternWithFirst(pattern, duration) ==
    [i \in 1..(duration + 1) |-> IF i <= Len(pattern) THEN pattern[i] ELSE pattern[1]]

\* The pattern extended with its last value, or cut, to duration + 1 years.
FitPattern(pattern, duration) ==
    [i \in 1..(duration + 1) |-> IF i <= Len(pattern) THEN pattern[i] ELSE pattern[Len(pattern)]]

\* PatternFlow.cash_flow
PatternFlow_cash_flow(flow, duration) ==
    [i \in 1..(duration + 1) |-> flow.amount * FitPattern(flow.pattern, duration)[i]]

\* 1 + escalation_rate for a rate in percent; the rates of the model are whole
\* multiples of 100 %, so that every escalated amount is a whole number
OnePlusEscalation(rate) == (100 + rate) \div 100

\* The first index that result[start:] = 0.0 writes, for a result of n values:
\* a negative start counts from the end.
SliceStart(start, n) == IF start >= 0 THEN start ELSE Max(n + start, 0)

\* EscalatingFlow.cash_flow: np.insert(pat.cumprod(), 0, [0.0, 1.0]) * amount,
\* then result[end_year + 1:] = 0.0
EscalatingFlow_cash_flow(flow, duration) ==
    [i \in 1..(duration + 1) |->
        IF ~IsNone(flow.end_year) /\ i - 1 >= SliceStart(Val(flow.end_year) + 1, duration + 1)
        THEN 0
        ELSE IF i = 1 THEN 0
        ELSE flow.amount * Pow(OnePlusEscalation(flow.escalation_rate), i - 2)]

\* yr in range(start, stop, step), step # 0
InRange(yr, start, stop, step) ==
    IF step > 0
    THEN yr >= start /\ yr < stop /\ (yr - start) % step = 0
    ELSE yr <= start /\ yr > stop /\ (start - yr) % (-step) = 0

\* PeriodicAmount.cash_flow
PeriodicAmount_cash_flow(flow, duration) ==
    [i \in 1..(duration + 1) |->
        IF InRange(i - 1, flow.interval, duration + 1, flow.interval)
        THEN flow.amount * Pow(OnePlusEscalation(flow.escalation_rate), i - 1)
        ELSE 0]

\* The exception that flow.cash_flow(duration) raises, "" when it returns:
\* np.ones(duration - 1) of a negative size, pat[-1] of an empty pattern,
\* range() with a step of 0.
cash_flow_raises(flow, duration) ==
    CASE flow.class = "InitialAmount" -> ""
      [] flow.class = "EscalatingFlow" -> IF duration - 1 < 0 THEN "ValueError" ELSE ""
      [] flow.class = "PatternFlow" ->
            IF Len(flow.pattern) < duration + 1 /\ Len(flow.pattern) = 0 THEN "IndexError" ELSE ""
      [] flow.class = "PeriodicAmount" -> IF flow.interval = 0 THEN "ValueError" ELSE ""

\* flow.cash_flow(duration) for the item classes
cash_flow(flow, duration) ==
    CASE flow.class = "InitialAmount" -> InitialAmount_cash_flow(flow, duration)
      [] flow.class = "EscalatingFlow" -> EscalatingFlow_cash_flow(flow, duration)
      [] flow.class = "PatternFlow" -> PatternFlow_cash_flow(flow, duration)
      [] flow.class = "PeriodicAmount" -> PeriodicAmount_cash_flow(flow, duration)

-----------------------------------------------------------------------------
(* econ/econ.py *)

RECURSIVE cumsum(_)
cumsum(a) ==
    IF Len(a) = 0 THEN <<>>
    ELSE Append(cumsum(SubSeq(a, 1, Len(a) - 1)), SumSeq(a))

RECURSIVE MinSeq(_)
MinSeq(s) == IF Len(s) = 1 THEN s[1] ELSE Min(s[1], MinSeq(Tail(s)))

\* payback without the test of the final cumulative value
PaybackUntested(cum_cash) ==
    IF MinSeq(cum_cash) > 0 THEN Some(Ratio(0, 1))
    ELSE Some(NpInterp(0, cum_cash, [i \in 1..Len(cum_cash) |-> i - 1]))

\* payback from the cumulative sum (lines 18-30): None, or the year as a quotient
PaybackOfCum(cum_cash) ==
    IF MinSeq(cum_cash) > 0 THEN Some(Ratio(0, 1))
    ELSE IF cum_cash[Len(cum_cash)] < 0 THEN None
    ELSE Some(NpInterp(0, cum_cash, [i \in 1..Len(cum_cash) |-> i - 1]))

payback(cash) == PaybackOfCum(cumsum(cash))

\* 1.0 + discount_rate for a rate in percent, as the reduced fraction num / den
OnePlusRate(rate) ==
    [num |-> (100 + rate) \div GCD(100 + rate, 100), den |-> 100 \div GCD(100 + rate, 100)]

\* The common denominator of the discounted amounts: (1 + rate) ^ duration's numerator
DiscScale(rate, duration) == Pow(OnePlusRate(rate).num, duration)

\* disc_mult * net_cash in units of 1 / DiscScale: year i is net_cash[i] / (1 + rate) ^ i
DiscCash(cash, rate) ==
    [i \in 1..Len(cash) |->
        cash[i] * Pow(OnePlusRate(rate).den, i - 1) * Pow(OnePlusRate(rate).num, Len(cash) - i)]

\* npf.npv(rate, values): the sum of values[t] / (1 + rate) ^ t
Npv(rate, cash) == Ratio(SumSeq(DiscCash(cash, rate)), DiscScale(rate, Len(cash) - 1))

\* the benefit/cost test with a year 0 of no cash counted as a cost
BcRatioOfZeroCost(cash, npv) ==
    IF cash[1] > 0 THEN None
    ELSE Some(Ratio(npv.num + (-cash[1]) * npv.den, (-cash[1]) * npv.den))

\* Lines 67-73: bc_ratio = (npv + cost) / cost with cost = -net_cash[0]
BcRatio(cash, npv) ==
    IF cash[1] >= 0 THEN None
    ELSE Some(Ratio(npv.num + (-cash[1]) * npv.den, (-cash[1]) * npv.den))

\* The total of the items' cash flows (lines 39-46), None without items.
RECURSIVE NetCash(_, _, _, _)
NetCash(items, duration, i, sum) ==
    IF i > Len(items) THEN sum
    ELSE NetCash(items, duration, i + 1,
                 IF IsNone(sum) THEN Some(cash_flow(items[i], duration))
                 ELSE Some([y \in 1..(duration + 1) |-> Val(sum)[y] + cash_flow(items[i], duration)[y]]))

\* table[flow.label] = list(cash_array), a later item replacing an earlier one
\* of the same label
RECURSIVE FlowTable(_, _, _, _)
FlowTable(items, duration, i, table) ==
    IF i > Len(items) THEN table
    ELSE FlowTable(items, duration, i + 1, DictSet(table, items[i].label, cash_flow(items[i], duration)))

\* The number of changes of sign along the values that are not 0.
RECURSIVE SignChanges(_, _)
SignChanges(values, last) ==
    IF Len(values) = 0 THEN 0
    ELSE IF Head(values) = 0 THEN SignChanges(Tail(values), last)
    ELSE (IF last # 0 /\ (last > 0) # (Head(values) > 0) THEN 1 ELSE 0)
         + SignChanges(Tail(values), Head(values))

\* The float nan
NaN == Ratio(0, 0)

\* The rate 1 / x - 1 of a positive real root x of the polynomial of the values:
\* a finite number that the model does not compute.
RateOfRoot(values) == [root_of |-> values]

\* What npf.irr(values) can return: nan when the polynomial has no positive
\* real root (no change of sign), the rate of a root when it has one (an odd
\* number of changes of sign), either of them otherwise.
npf_irr(values) ==
    IF SignChanges(values, 0) = 0 THEN {NaN}
    ELSE IF SignChanges(values, 0) % 2 = 1 THEN {RateOfRoot(values)}
    ELSE {NaN, RateOfRoot(values)}

\* general/utils.py chg_nonnum: a nan, or anything that is not a number,
\* becomes sub_val
chg_nonnum(val, sub_val) ==
    IF val = None THEN sub_val
    ELSE IF "den" \in DOMAIN val /\ IsNaN(val) THEN sub_val
    ELSE val

\* payback(disc_cash) for a discount rate of -100 % and a duration of at least
\* one year: disc_mult is [1, inf, inf, ...], and the cumulative sum is the
\* year 0 amount followed by -inf when the later amounts are all negative (its
\* last value is below 0) and by +inf when they are all positive (np.interp of
\* 0.0 then gives year 0 unless the minimum is already above 0). Later amounts
\* of mixed sign or of 0 give nan and are not among the inputs of the model.
PaybackInfinite(cash) ==
    CASE \A i \in 2..Len(cash) : cash[i] < 0 -> None
      [] \A i \in 2..Len(cash) : cash[i] > 0 -> Some(Ratio(0, 1))

\* payback(disc_cash), lines 61-64
DiscountedPayback(cash, rate) ==
    IF OnePlusRate(rate).num = 0 /\ Len(cash) > 1
    THEN PaybackInfinite(cash)
    ELSE payback(DiscCash(cash, rate))

\* The results once the net cash flow is known (lines 48-86).
Results(cash_inp, net, table, irr) ==
    [cash_flow_table |-> DictSet(table, "Net Cash", net),
     irr |-> IF irr = None THEN None ELSE Some(irr),
     npv |-> IF IsNone(cash_inp.discount_rate) THEN None
             ELSE Some(Npv(Val(cash_inp.discount_rate), net)),
     discounted_payback |-> IF IsNone(cash_inp.discount_rate) THEN None
                            ELSE DiscountedPayback(net, Val(cash_inp.discount_rate)),
     bc_ratio |-> IF IsNone(cash_inp.discount_rate) THEN None
                  ELSE BcRatio(net, Npv(Val(cash_inp.discount_rate), net)),
     simple_payback |-> payback(net)]

AnalyzeWith(net) ==
    IF IsNone(net)
    THEN \* list(net_cash) on None
         /\ pc' = "error"
         /\ err' = "TypeError"
         /\ UNCHANGED <<net_cash, results>>
    ELSE /\ net_cash' = Val(net)
         /\ \E irr \in npf_irr(Val(net)) :
               results' = Results(inp, Val(net),
                                  FlowTable(inp.cash_flow_items, inp.duration, 1,
                                            "Year" :> [y \in 1..(inp.duration + 1) |-> y - 1]),
                                  chg_nonnum(irr, None))
         /\ pc' = "analyzed"
         /\ UNCHANGED err

\* The exception of the first item whose cash_flow raises, "" when none does.
RECURSIVE FirstRaise(_, _)
FirstRaise(items, duration) ==
    IF Len(items) = 0 THEN ""
    ELSE IF cash_flow_raises(Head(items), duration) # "" THEN cash_flow_raises(Head(items), duration)
    ELSE FirstRaise(Tail(items), duration)

analyze_cash_flow ==
    /\ pc = "cash_flow"
    /\ IF FirstRaise(inp.cash_flow_items, inp.duration) # ""
       THEN /\ pc' = "error"
            /\ err' = FirstRaise(inp.cash_flow_items, inp.duration)
            /\ UNCHANGED <<net_cash, results>>
       ELSE AnalyzeWith(NetCash(inp.cash_flow_items, inp.duration, 1, None))
    /\ UNCHANGED <<tmy, dfh, hp_load, conventional_load, hp_capacity_used, hourly, dfm, avars, inp, fvars, svars>>

\* number of years the longest cash flow spans (the shortest spans 2)
MaxDuration == 4

\* yearly amounts
Amounts == {-15, 0, 5, 30}

\* discount rates in percent
DiscountRates == {None, Some(0), Some(25), Some(100)}

Initial(a) == [class |-> "InitialAmount", label |-> "Initial", amount |-> a]

Pattern(a, p) == [class |-> "PatternFlow", label |-> "Pattern", amount |-> a, pattern |-> p]

\* An initial amount and a pattern of yearly amounts.
YearlyInputs(d) ==
    {[duration |-> d, discount_rate |-> r,
      cash_flow_items |-> <<Initial(a), Pattern(1, <<0>> \o p)>>] :
        r \in DiscountRates, a \in Amounts, p \in [1..d -> Amounts]}

Escalating(a, r, e) ==
    [class |-> "EscalatingFlow", label |-> "Escalating", amount |-> a,
     escalation_rate |-> r, end_year |-> e]

Periodic(a, n, r) ==
    [class |-> "PeriodicAmount", label |-> "Periodic", amount |-> a,
     interval |-> n, escalation_rate |-> r]

\* An item that leaves its label at the default of CashFlowItem
Unlabelled(item) == [item EXCEPT !.label = "Cash Flow Item"]

\* Items of every class in one cash flow, from a duration of 0.
MixedInputs ==
    {[duration |-> d, discount_rate |-> r,
      cash_flow_items |-> <<Initial(-15), Escalating(a, er, None), Periodic(5, n, 0)>>] :
        d \in 0..MaxDuration, r \in {None, Some(25)}, a \in {5, 30}, er \in {0, 100}, n \in {0, 2}}

\* Items that share a label, the default one included, and items labelled as
\* the two columns that the table always holds.
LabelInputs ==
    {[duration |-> d, discount_rate |-> None, cash_flow_items |-> its] :
        d \in 0..MaxDuration,
        its \in {<<Initial(-15), Initial(30)>>,
                 <<Unlabelled(Initial(-15)), Unlabelled(Pattern(5, <<0, 1>>))>>,
                 <<Initial(-15), [Pattern(5, <<0, 1>>) EXCEPT !.label = "Year"]>>,
                 <<Initial(-15), [Pattern(5, <<0, 1>>) EXCEPT !.label = "Net Cash"]>>}}

\* A discount rate of -100 %, which CashFlowInputs accepts, with later
\* amounts that are all of one sign.
FullDiscountInputs ==
    {[duration |-> d, discount_rate |-> Some(-100),
      cash_flow_items |-> <<Initial(a), Pattern(p, <<0, 1>>)>>] :
        d \in 0..MaxDuration, a \in Amounts, p \in {-15, 5, 30}}

\* Also patterns shorter and longer than the duration, and no item at all.
CashFlowInputs ==
    UNION {YearlyInputs(d) : d \in 2..MaxDuration}
    \cup {[duration |-> d, discount_rate |-> r,
           cash_flow_items |-> <<Pattern(2, p)>>] :
            d \in 2..MaxDuration, r \in DiscountRates, p \in {<<-15, 5>>, <<-15, 5, 0, 0, 0, 0, 0, 5>>}}
    \cup {[duration |-> d, discount_rate |-> None, cash_flow_items |-> <<>>] : d \in 2..MaxDuration}
    \cup MixedInputs
    \cup LabelInputs
    \cup FullDiscountInputs

InitEcon ==
    /\ pc = "cash_flow"
    /\ err = ""
    /\ inp \in CashFlowInputs
    /\ tmy = <<>>
    /\ dfh = <<>>
    /\ hp_load = <<>>
    /\ conventional_load = <<>>
    /\ hp_capacity_used = <<>>
    /\ hourly = <<>>
    /\ dfm = <<>>
    /\ heap = <<>>
    /\ df_monthly = <<>>
    /\ annual = <<>>
    /\ net_cash = <<>>
    /\ results = <<>>
    /\ cache = <<>>
    /\ evicted = <<>>
    /\ calls = <<>>
    /\ shared = <<>>

NextEcon == analyze_cash_flow

SpecEcon == InitEcon /\ [][NextEcon]_vars

-----------------------------------------------------------------------------
(* econ/models.py: one call of an item's cash_flow *)

\* The items whose cash_flow is called on its own.
FlowItems ==
    {Initial(a) : a \in Amounts}
    \cup {Escalating(a, r, e) :
            a \in {-15, 5}, r \in {0, 100},
            e \in {None, Some(-2), Some(0), Some(2), Some(MaxDuration + 1)}}
    \cup {Pattern(a, p) :
            a \in {1, 2},
            p \in {<<>>, <<5>>, <<-15, 5>>, <<0, 5, -15>>, <<-15, 5, 0, 0, 0, 0, 0, 5>>}}
    \cup {Periodic(a, n, r) :
            a \in {-15, 5}, n \in {-2, 0, 1, 2, 3, MaxDuration + 1}, r \in {0, 100}}

InitFlow ==
    /\ pc = "item"
    /\ err = ""
    /\ \E flow \in FlowItems, duration \in 0..MaxDuration :
          inp = [flow |-> flow, duration |-> duration]
    /\ tmy = <<>>
    /\ dfh = <<>>
    /\ hp_load = <<>>
    /\ conventional_load = <<>>
    /\ hp_capacity_used = <<>>
    /\ hourly = <<>>
    /\ dfm = <<>>
    /\ heap = <<>>
    /\ df_monthly = <<>>
    /\ annual = <<>>
    /\ net_cash = <<>>
    /\ results = <<>>
    /\ cache = <<>>
    /\ evicted = <<>>
    /\ calls = <<>>
    /\ shared = <<>>

\* inp.flow.cash_flow(inp.duration): the array returned is kept in results;
\* the item itself is read only (np.array(self.pattern) is a copy).
item_cash_flow ==
    /\ pc = "item"
    /\ IF cash_flow_raises(inp.flow, inp.duration) # ""
       THEN /\ pc' = "error"
            /\ err' = cash_flow_raises(inp.flow, inp.duration)
            /\ UNCHANGED results
       ELSE /\ pc' = "produced"
            /\ results' = cash_flow(inp.flow, inp.duration)
            /\ UNCHANGED err
    /\ UNCHANGED <<inp, bvars, avars, net_cash, fvars, svars>>

NextFlow == item_cash_flow

SpecFlow == InitFlow /\ [][NextFlow]_vars

-----------------------------------------------------------------------------
(* energy/fit_model.py: fit_model, its lru_cache and the ModelFitter       *)
(*                                                                         *)
(* Units of the fit: fuel amounts are counted in thousandths of a fuel     *)
(* unit, electricity in kWh, energy in kWh equivalents (the model's        *)
(* "mmbtu"); ua_per_ft2 in thousandths, fractions and seasonalities in     *)
(* hundredths, misc_elec_kwh_per_day in thousandths, ev_miles_per_kwh in   *)
(* hundredths.  A building object lives in heap at an address (a tuple);   *)
(* its two heating systems are objects of their own.                       *)

\* lru_cache(maxsize=100): the number of entries kept.  The model keeps
\* fewer entries so that evictions happen within a few calls.
CacheSize == 2

\* electric_use_by_month has one entry per month of the fitted year.
FitMonths == 2

\* The largest finite float, in the model's scaled-down float format: a
\* quotient whose magnitude exceeds it is infinite.  The smallest positive
\* amount of the model is one thousandth; doubles reach from 4.9e-324 to
\* 1.8e308, so that there too the quotient of two finite amounts can
\* exceed the largest float.
FLOAT_MAX == 10000

\* The order json.dumps(sort_keys=True) gives the keys of actual_fuel_by_type.
KeyRank(fuel_id) ==
    CASE fuel_id = "elec" -> 1
      [] fuel_id = "oil1" -> 2
      [] fuel_id = "propane" -> 3
      [] fuel_id = "wood" -> 4

\* Insertion of one item into a list of items sorted by key.
InsertSorted(item, sorted) ==
    LET before == SelectSeq(sorted, LAMBDA p : KeyRank(p[1]) < KeyRank(item[1]))
        after == SelectSeq(sorted, LAMBDA p : KeyRank(p[1]) > KeyRank(item[1]))
    IN  before \o <<item>> \o after

RECURSIVE SortItems(_)
\* The items of a dict in the order sort_keys=True writes them.
SortItems(items) ==
    IF items = <<>> THEN <<>>
    ELSE InsertSorted(items[Len(items)], SortItems(SubSeq(items, 1, Len(items) - 1)))

\* json.dumps(inp_dict, separators=(",", ":")) without sort_keys: dicts are
\* written in their insertion order.
json_dumps_unsorted(inp_dict) ==
    <<inp_dict.actual_fuel_by_type, inp_dict.building_description, inp_dict.electric_use_by_month>>

\* json.dumps(inp_dict, sort_keys=True, separators=(",", ":")): the text,
\* given as the list of its values in the order of the sorted keys.
json_dumps(inp_dict) ==
    <<SortItems(inp_dict.actual_fuel_by_type), inp_dict.building_description,
      inp_dict.electric_use_by_month>>

\* EnergyModelFitInputs.model_validate_json(inp_json): the input written in
\* the text, its dict in the order of the text.
model_validate_json(inp_json) ==
    [building_description |-> inp_json[2],
     actual_fuel_by_type |-> inp_json[1],
     electric_use_by_month |-> inp_json[3]]

\* The argument fit_model hands to fit_model_json_input.
inp_cacheable(fit_inp) == json_dumps(fit_inp)

\* ---- objects

\* The addresses of the two heating systems of the building stored at a.
SystemAddress(a, i) == Append(a, i)

\* Storing the building given by value at address a.
Store(h, a, bldg) ==
    LET refs == [i \in 1..2 |->
                    IF bldg.conventional_heat[i] = None THEN None ELSE SystemAddress(a, i)]
        systems == {i \in 1..2 : bldg.conventional_heat[i] # None}
        dom == (DOMAIN h) \cup {a} \cup {SystemAddress(a, i) : i \in systems}
    IN  [x \in dom |->
            IF x = a THEN [bldg EXCEPT !.conventional_heat = refs]
            ELSE IF \E i \in systems : x = SystemAddress(a, i)
            THEN bldg.conventional_heat[CHOOSE i \in systems : x = SystemAddress(a, i)]
            ELSE h[x]]

\* The building stored at address a, given by value.
ValueAt(h, a) ==
    [h[a] EXCEPT !.conventional_heat =
        [i \in 1..2 |-> IF h[a].conventional_heat[i] = None THEN None
                        ELSE h[h[a].conventional_heat[i]]]]

\* The working object kept when no copy is made.
SameObject(h, obj, fresh) == [heap |-> h, ref |-> obj]

\* deepcopy(obj): a new object at the address fresh, with new heating
\* system objects.
deepcopy(h, obj, fresh) == [heap |-> Store(h, fresh, ValueAt(h, obj)), ref |-> fresh]

\* ---- the energy model run by the fit

\* fuel_from_id(fuel_id).btus, in kWh equivalents per fuel unit.
FuelBtus(fuel_id) ==
    CASE fuel_id = "oil1" -> 40
      [] fuel_id = "propane" -> 27
      [] fuel_id = "wood" -> 50
      [] fuel_id = "elec" -> 1

\* The year's conventional heating load of a building, from its heat loss.
HEATING_FACTOR == 20

FitLoad(bldg) == ((bldg.ua_per_ft2 * bldg.bldg_floor_area) \div 1000) * HEATING_FACTOR

\* Energy of the fuel burnt by heating system i.
SystemMmbtu(bldg, i) ==
    LET htg_sys == bldg.conventional_heat[i]
    IN  (((FitLoad(bldg) * htg_sys.frac_load_served) \div 100) * 100) \div htg_sys.heating_effic

\* seasonal_use and monthly_solar: the electricity of month m.
DAYS_PER_FIT_MONTH == 30

MonthSign(m) == IF m % 2 = 1 THEN 1 ELSE -1

FitElecKwh(bldg, m) ==
    LET misc == (((bldg.misc_elec_kwh_per_day * DAYS_PER_FIT_MONTH) \div 1000)
                    * (100 + MonthSign(m) * bldg.misc_elec_seasonality)) \div 100
        ev == IF bldg.ev_charging_miles_per_day = 0 THEN 0
              ELSE (((bldg.ev_charging_miles_per_day * 100 * DAYS_PER_FIT_MONTH)
                        \div bldg.ev_miles_per_kwh)
                    * (100 + MonthSign(m) * bldg.ev_seasonality)) \div 100
        solar == (bldg.solar_kw * bldg.solar_kwh_per_kw) \div FitMonths
    IN  misc + ev - solar

\* The fuels a building burns for heat.
HeatFuels(bldg) ==
    {Val(bldg.conventional_heat[i].heat_fuel_id) :
        i \in {j \in 1..2 : ~IsNone(bldg.conventional_heat[j].heat_fuel_id)}}

\* model_building(bldg), as far as the fit reads it: the energy by fuel
\* (annual_results.fuel_use_mmbtu summed over end uses), the fuel units by
\* fuel (annual_results.fuel_use_units summed over end uses) and the monthly
\* electricity.
FitModelResults(bldg) ==
    LET mmbtu(f) == SumSeq([i \in 1..2 |->
                        IF bldg.conventional_heat[i].heat_fuel_id = Some(f)
                        THEN SystemMmbtu(bldg, i) ELSE 0])
        monthly == [m \in 1..FitMonths |-> FitElecKwh(bldg, m)]
    IN  [fuel_use_mmbtu |-> [f \in HeatFuels(bldg) \cup {"elec"} |->
                                IF f = "elec" THEN SumSeq(monthly) ELSE mmbtu(f)],
         fuel_use_units |-> [f \in HeatFuels(bldg) \cup {"elec"} |->
                                IF f = "elec" THEN SumSeq(monthly) * 1000
                                ELSE (mmbtu(f) * 1000) \div FuelBtus(f)],
         elec_monthly |-> monthly]

\* ---- ModelFitter

\* The dict made of a list of items.
DictOf(items) == [k \in {items[i][1] : i \in DOMAIN items} |->
                    (items[CHOOSE i \in DOMAIN items : items[i][1] = k])[2]]

\* ModelFitter.__init__: actual_fuel, the actual use as energy.
ActualFuel(fit_inp) ==
    LET units == DictOf(fit_inp.actual_fuel_by_type)
    IN  [f \in DOMAIN units |-> (units[f] * FuelBtus(f)) \div 1000]

\* fit: the initial values of the seven parameters.
init_params(bldg) ==
    <<190,
      IF bldg.conventional_heat[2].heat_fuel_id = None THEN 100 ELSE 75,
      5720 + (3290 * bldg.bldg_floor_area) \div 1000,
      15, 300, 0, 650>>

\* fit: the bounds of the seven parameters, as (low, high) pairs.
FitBounds(bldg) ==
    <<<<96, 520>>,
      IF bldg.conventional_heat[2].heat_fuel_id = None THEN <<100, 100>> ELSE <<40, 100>>,
      <<init_params(bldg)[3] \div 2, init_params(bldg)[3] * 2>>,
      <<-10, 30>>,
      IF bldg.ev_charging_miles_per_day # 0 THEN <<180, 350>> ELSE <<300, 300>>,
      IF bldg.ev_charging_miles_per_day # 0 THEN <<-15, 15>> ELSE <<0, 0>>,
      IF bldg.solar_kw # 0 THEN <<450, 950>> ELSE <<650, 650>>>>

\* The assignments of the seven parameters to the building object at self_bldg.
SetParams(h, self_bldg, x) ==
    LET sys1 == h[self_bldg].conventional_heat[1]
        sys2 == h[self_bldg].conventional_heat[2]
    IN  [h EXCEPT ![self_bldg] = [@ EXCEPT !.ua_per_ft2 = x[1],
                                           !.misc_elec_kwh_per_day = x[3],
                                           !.misc_elec_seasonality = x[4],
                                           !.ev_miles_per_kwh = x[5],
                                           !.ev_seasonality = x[6],
                                           !.solar_kwh_per_kw = x[7]],
                  ![sys1] = [@ EXCEPT !.frac_load_served = x[2]],
                  ![sys2] = [@ EXCEPT !.frac_load_served = 100 - x[2]]]

\* model_error(params): the total of the squared errors of the building
\* object as it stands after the assignments.
model_error(h, self_bldg, fit_inp) ==
    LET res == FitModelResults(ValueAt(h, self_bldg))
        actual_fuel == ActualFuel(fit_inp)
        fuels == DOMAIN actual_fuel
        elec == SumSeq([m \in 1..FitMonths |->
                    (res.elec_monthly[m] - fit_inp.electric_use_by_month[m])
                    * (res.elec_monthly[m] - fit_inp.electric_use_by_month[m])]) * 12
        sq(f) == (actual_fuel[f] - DictGet(res.fuel_use_mmbtu, f, 0))
                 * (actual_fuel[f] - DictGet(res.fuel_use_mmbtu, f, 0))
        others == SumSeq([i \in DOMAIN fit_inp.actual_fuel_by_type |->
                    sq(fit_inp.actual_fuel_by_type[i][1])])
    IN  elec + others

\* The points at which minimize evaluates model_error: the initial values,
\* then the low and the high corner of the bounds.
EvaluationPoints(bldg) ==
    <<init_params(bldg),
      [i \in 1..7 |-> FitBounds(bldg)[i][1]],
      [i \in 1..7 |-> FitBounds(bldg)[i][2]]>>

RECURSIVE Minimize(_, _, _, _, _, _)
RECURSIVE Evaluated(_, _, _, _, _, _)
RECURSIVE Compared(_, _, _, _, _, _, _)
\* minimize(self.model_error, init_params, bounds=bounds): evaluation k and
\* the ones after it; best is the point of the least error seen so far.
\* Every evaluation assigns its point to the building object.
Minimize(h, self_bldg, fit_inp, points, k, best) ==
    IF k > Len(points) THEN [heap |-> h, x |-> best.x]
    ELSE Evaluated(SetParams(h, self_bldg, points[k]), self_bldg, fit_inp, points, k, best)

\* Evaluation k has assigned its point: the error of the object is computed.
Evaluated(h2, self_bldg, fit_inp, points, k, best) ==
    Compared(h2, self_bldg, fit_inp, points, k, best, model_error(h2, self_bldg, fit_inp))

\* The error e of evaluation k is compared with the least error so far.
Compared(h2, self_bldg, fit_inp, points, k, best, e) ==
    Minimize(h2, self_bldg, fit_inp, points, k + 1,
             IF best.x = None \/ e < best.fun THEN [x |-> points[k], fun |-> e] ELSE best)

\* A float quotient n / d with d > 0: infinite when it exceeds the floats.
FloatDiv(n, d) ==
    LET magnitude == IF n < 0 THEN -n ELSE n
    IN  IF magnitude \div d > FLOAT_MAX
           \/ (magnitude \div d = FLOAT_MAX /\ magnitude % d # 0)
        THEN Ratio(IF n > 0 THEN 1 ELSE -1, 0)
        ELSE Ratio(n, d)

\* math.copysign(0.999, modeled), in thousandths.
Copysign999(modeled) == Ratio(IF modeled < 0 THEN -999 ELSE 999, 1000)

\* The error fraction of one fuel.
FitError(actual, modeled) ==
    IF actual # 0
    THEN IF actual > 0 THEN FloatDiv(modeled - actual, actual)
         ELSE FloatDiv(actual - modeled, -actual)
    ELSE Copysign999(modeled)

\* fit: fuel_fit_info, from the units modeled and the actual units.
FuelFitInfo(fuel_modeled, fit_inp) ==
    LET actual_fuel_units == DictOf(fit_inp.actual_fuel_by_type)
        used_fuels == {f \in DOMAIN fuel_modeled : fuel_modeled[f] > 0}
                      \cup {f \in DOMAIN actual_fuel_units : actual_fuel_units[f] > 0}
        elec_actual_annual == SumSeq(fit_inp.electric_use_by_month) * 1000
        elec_modeled == DictGet(fuel_modeled, "elec", 0)
    IN  [f \in used_fuels \cup {"elec"} |->
            IF f = "elec"
            THEN <<elec_actual_annual, elec_modeled, FitError(elec_actual_annual, elec_modeled)>>
            ELSE <<DictGet(actual_fuel_units, f, 0), DictGet(fuel_modeled, f, 0),
                   FitError(DictGet(actual_fuel_units, f, 0), DictGet(fuel_modeled, f, 0))>>]

\* fit, after minimize: the best point is assigned to the building object,
\* the object is run through the model and the output is made.
FitFilled(filled, self_bldg, fit_inp) ==
    [heap |-> filled, raises |-> "",
     out |-> [building_description |-> self_bldg,
              fuel_fit_info |-> FuelFitInfo(
                  FitModelResults(ValueAt(filled, self_bldg)).fuel_use_units, fit_inp)]]

\* fit, from minimize on.
FitMinimized(result, self_bldg, fit_inp) ==
    FitFilled(SetParams(result.heap, self_bldg, result.x), self_bldg, fit_inp)

\* fit for the building value bldg of the working object:
\* conventional_heat[1].heat_fuel_id raises when there is no second system.
FitOfValue(copy, bldg, fit_inp) ==
    IF bldg.conventional_heat[2] = None
    THEN [heap |-> copy.heap, raises |-> "AttributeError", out |-> None]
    ELSE FitMinimized(Minimize(copy.heap, copy.ref, fit_inp, EvaluationPoints(bldg), 1,
                               [x |-> None, fun |-> 0]),
                      copy.ref, fit_inp)

\* __init__ has made the working object copy.ref; fit() follows.
FitOfCopy(copy, fit_inp) == FitOfValue(copy, ValueAt(copy.heap, copy.ref), fit_inp)

\* ModelFitter(inp).fit() for the input object whose building is at
\* inp_bldg; fresh is the address a new building object gets.  The outcome
\* is the heap left behind and either the exception raised or the output.
ModelFitterFit(h, fit_inp, inp_bldg, fresh) ==
    FitOfCopy(deepcopy(h, inp_bldg, fresh), fit_inp)

\* The addresses of the objects of one call.
CallerAddress == <<"caller">>

ParsedAddress == <<"parsed">>

\* A new object gets an address no object of the heap has.
CopyAddress(h) ==
    <<"copy", CHOOSE n \in 1..(CacheSize + 1) :
                /\ <<"copy", n>> \notin DOMAIN h
                /\ \A m \in 1..(n - 1) : <<"copy", m>> \in DOMAIN h>>

\* fit_model_json_input(inp_json), uncached.
fit_model_json_input(h, inp_json) ==
    ModelFitterFit(Store(h, ParsedAddress, model_validate_json(inp_json).building_description),
                   model_validate_json(inp_json), ParsedAddress, CopyAddress(h))

\* An output given by value: its building read from the heap.
OutputValue(h, out) ==
    [building_description |-> ValueAt(h, out.building_description),
     fuel_fit_info |-> out.fuel_fit_info]

\* ---- the cache

\* The position of a key in the cache, 0 when it has no entry.
CacheIndex(entries, key) ==
    IF \E i \in DOMAIN entries : entries[i].key = key
    THEN CHOOSE i \in DOMAIN entries : entries[i].key = key
    ELSE 0

\* The entries without entry i.
Without(entries, i) == SubSeq(entries, 1, i - 1) \o SubSeq(entries, i + 1, Len(entries))

\* The objects still referred to: the cached outputs' buildings.
Live(h, entries) ==
    LET roots == {entries[i].out.building_description : i \in DOMAIN entries}
    IN  [x \in {y \in DOMAIN h : \E r \in roots : y = r \/ y \in {SystemAddress(r, 1), SystemAddress(r, 2)}}
            |-> h[x]]

\* ---- inputs

HeatingSystem(fuel, effic) ==
    [heat_fuel_id |-> fuel, heating_effic |-> effic, frac_load_served |-> 100]

FitBuilding(second, ev_miles, solar_kw) ==
    [bldg_floor_area |-> 1000,
     ua_per_ft2 |-> 250,
     conventional_heat |-> <<HeatingSystem(Some("oil1"), 80), second>>,
     misc_elec_kwh_per_day |-> 8000,
     misc_elec_seasonality |-> 0,
     ev_charging_miles_per_day |-> ev_miles,
     ev_miles_per_kwh |-> 300,
     ev_seasonality |-> 0,
     solar_kw |-> solar_kw,
     solar_kwh_per_kw |-> 650]

FitInput(bldg, actual, elec) ==
    [building_description |-> bldg, actual_fuel_by_type |-> actual, electric_use_by_month |-> elec]

\* The monthly electricity use of a year, and a year without any.
ElecUse == [m \in 1..FitMonths |-> IF m % 2 = 1 THEN 300 ELSE 250]

NoElecUse == [m \in 1..FitMonths |-> 0]

FitInputs ==
    {FitInput(FitBuilding(HeatingSystem(None, 80), 0, 0), a, ElecUse) :
        a \in {<<<<"wood", 5000>>, <<"oil1", 100000>>>>, <<<<"oil1", 1>>>>}}
    \cup {FitInput(FitBuilding(HeatingSystem(Some("propane"), 90), 0, 0), a, ElecUse) :
        a \in {<<<<"oil1", 100000>>, <<"propane", 30000>>>>,
               <<<<"propane", 30000>>, <<"oil1", 100000>>>>}}
    \cup {FitInput(FitBuilding(HeatingSystem(None, 80), 30, 2), <<>>, NoElecUse)}
    \cup {FitInput(FitBuilding(None, 0, 0), <<<<"oil1", 100000>>>>, ElecUse)}

InitFit ==
    /\ pc = "idle"
    /\ err = ""
    /\ inp = <<>>
    /\ tmy = <<>>
    /\ dfh = <<>>
    /\ hp_load = <<>>
    /\ conventional_load = <<>>
    /\ hp_capacity_used = <<>>
    /\ hourly = <<>>
    /\ dfm = <<>>
    /\ heap = <<>>
    /\ df_monthly = <<>>
    /\ annual = <<>>
    /\ net_cash = <<>>
    /\ results = <<>>
    /\ cache = <<>>
    /\ evicted = <<>>
    /\ calls = <<>>
    /\ shared = <<>>

\* The cache has no entry for key: the output made is kept, the least
\* recently used entry giving way when the cache is full.
CacheMiss(key, made) ==
    /\ heap' = made.heap
    /\ IF made.raises # ""
       THEN /\ pc' = "error"
            /\ err' = made.raises
            /\ results' = <<>>
            /\ UNCHANGED <<cache, evicted>>
       ELSE /\ pc' = IF evicted = Some(key) THEN "rebuilt" ELSE "first"
            /\ err' = ""
            /\ results' = made.out
            /\ IF Len(cache) >= CacheSize
               THEN /\ cache' = Append(Tail(cache), [key |-> key, out |-> made.out])
                    /\ evicted' = Some(cache[1].key)
               ELSE /\ cache' = Append(cache, [key |-> key, out |-> made.out])
                    /\ UNCHANGED evicted

\* The cache holds the entry i for the key: its output is returned and
\* the entry becomes the most recently used.
CacheHit(h0, i) ==
    /\ pc' = "hit"
    /\ err' = ""
    /\ heap' = h0
    /\ results' = cache[i].out
    /\ cache' = Append(Without(cache, i), cache[i])
    /\ UNCHANGED evicted

\* The call of the cached fit_model_json_input with the key.
CachedCall(h0, key, i) ==
    IF i # 0 THEN CacheHit(h0, i) ELSE CacheMiss(key, fit_model_json_input(h0, key))

\* fit_model for the input whose building is at CallerAddress of h0.
FitModelOf(fit_inp, h0, key) == CachedCall(h0, key, CacheIndex(cache, key))

\* The caller's objects are in h0: model_dump reads them.
FitModelDump(fit_inp, h0) ==
    FitModelOf(fit_inp, h0,
               inp_cacheable([fit_inp EXCEPT !.building_description = ValueAt(h0, CallerAddress)]))

\* One call fit_model(inp) by a caller that holds its input object: the
\* building of the input is at CallerAddress.  The objects no cache entry
\* refers to any more are dropped first.
fit_model ==
    \E fit_inp \in FitInputs :
        /\ inp' = fit_inp
        /\ FitModelDump(fit_inp, Store(Live(heap, cache), CallerAddress, fit_inp.building_description))
        /\ UNCHANGED <<tmy, dfh, hp_load, conventional_load, hp_capacity_used, hourly, dfm,
                       df_monthly, annual, net_cash, svars>>

NextFit == fit_model

SpecFit == InitFit /\ [][NextFit]_vars

-----------------------------------------------------------------------------
(* energy/retrofit_analysis.py: analyze_retrofit                           *)
(*                                                                         *)
(* model_building is called twice; each call is given here as a function   *)
(* of the building and the weather, built from the operators of the        *)
(* hourly dispatch above.  Costs are whole dollars, CO2 whole pounds.      *)

\* The hourly frame of one simulation (lines 115-170).
SimFrame(building, rows) ==
    IF IsNone(building.heat_pump)
    THEN HourlyFrameNoHeatPump(rows)
    ELSE HourlyFrame(rows, RunningColumn(building, rows), PerformanceArrays(building, rows))

\* The loads of a running hour whose heat pump load is hp_ld (lines 279-291).
HourWithHeatPump(total, hp_ld, cop) ==
    [hp_load_mmbtu |-> hp_ld, conventional_load_mmbtu |-> total - hp_ld,
     hp_kwh |-> HpKwh(hp_ld, cop)]

\* The loads of one hour (lines 210-292).
SimHour(building, h) ==
    IF ~h.running
    THEN [hp_load_mmbtu |-> 0, conventional_load_mmbtu |-> total_load(building, h.db_temp),
          hp_kwh |-> 0]
    ELSE HourWithHeatPump(total_load(building, h.db_temp),
                          LimitToCapacity(CandidateLoad(building, h.db_temp), h.max_hp_output),
                          h.cop)

\* The exception a simulation raises, "" when it returns: hp_ld / max_hp_output
\* with a maximum output of 0 (line 282), conventional_heat[1] of None (line 316).
SimRaises(building, frame) ==
    IF \E i \in DOMAIN frame : frame[i].running /\ frame[i].max_hp_output = 0
    THEN "ZeroDivisionError"
    ELSE IF IsNone(building.conventional_heat[2]) THEN "AttributeError"
    ELSE ""

\* The monthly sums of the hourly loads (lines 296-298).
SimMonthly(frame, hours) ==
    [m \in Months |->
        [hp_load_mmbtu |-> SumSeq([i \in DOMAIN frame |->
                              IF frame[i].month = m THEN hours[i].hp_load_mmbtu ELSE 0]),
         conventional_load_mmbtu |-> SumSeq([i \in DOMAIN frame |->
                              IF frame[i].month = m THEN hours[i].conventional_load_mmbtu ELSE 0]),
         hp_kwh |-> SumSeq([i \in DOMAIN frame |->
                              IF frame[i].month = m THEN hours[i].hp_kwh ELSE 0])]]

\* The price of the energy of a fuel and its CO2, per 1000 units of load
\* (per 100 kWh for electricity).
EnergyPrice(fuel_id) ==
    CASE fuel_id = "elec" -> 15
      [] fuel_id = "oil1" -> 3
      [] fuel_id = "propane" -> 4

EnergyCo2(fuel_id) ==
    CASE fuel_id = "elec" -> 1
      [] fuel_id = "oil1" -> 2
      [] fuel_id = "propane" -> 1

\* The load each fuel serves over the year: the heat pump's electricity and
\* the conventional systems' shares (lines 315-316, 435-451).
SimFuelUse(building, kwh, conv) ==
    [f \in {"elec", "oil1", "propane"} |->
        (IF f = "elec" THEN kwh \div 100 ELSE 0)
        + SumSeq([i \in 1..2 |->
              IF (IF i = 1 THEN building.conventional_heat[1]
                  ELSE Val(building.conventional_heat[2])).heat_fuel_id = Some(f)
              THEN FracOf((IF i = 1 THEN building.conventional_heat[1]
                           ELSE Val(building.conventional_heat[2])).frac_load_served, conv) \div 1000
              ELSE 0])]

\* annual_results of a simulation, as far as analyze_retrofit reads them.
SimAnnual(use) ==
    [fuel_cost |-> [f \in DOMAIN use |-> use[f] * EnergyPrice(f)],
     fuel_total_cost |-> SumSeq([i \in 1..3 |->
                            use[<<"elec", "oil1", "propane">>[i]]
                            * EnergyPrice(<<"elec", "oil1", "propane">>[i])]),
     co2_lbs |-> SumSeq([i \in 1..3 |->
                    use[<<"elec", "oil1", "propane">>[i]]
                    * EnergyCo2(<<"elec", "oil1", "propane">>[i])])]

\* The results of a simulation from its monthly frame.
SimResults(building, monthly) ==
    [raises |-> "",
     monthly_results |-> monthly,
     annual_results |->
        SimAnnual(SimFuelUse(building,
                             SumSeq([m \in Months |-> monthly[m].hp_kwh]),
                             SumSeq([m \in Months |-> monthly[m].conventional_load_mmbtu])))]

\* model_building(building) for the weather rows, from its hourly frame.
SimOfFrame(building, frame) ==
    IF SimRaises(building, frame) # ""
    THEN [raises |-> SimRaises(building, frame)]
    ELSE SimResults(building,
                    SimMonthly(frame, [i \in DOMAIN frame |-> SimHour(building, frame[i])]))

Simulate(building, rows) == SimOfFrame(building, SimFrame(building, rows))

\* convert_co2_to_miles_driven
convert_co2_to_miles_driven(co2_saved) == Ratio(1396 * co2_saved, 1208)

\* npf.pmt(rate, nper, pv) for the loans of the model, which bear no
\* interest: the level payment, a negative number.  Arithmetic on None raises.
loan_pmt_raises(inp_cost) ==
    IF IsNone(inp_cost.loan_term) \/ IsNone(inp_cost.loan_interest) THEN "TypeError" ELSE ""

loan_pmt(inp_cost) == -(inp_cost.loan_amount \div Val(inp_cost.loan_term))

Item(class, label, amount) == [class |-> class, label |-> label, amount |-> amount]

\* Lines 84-110: the financing items.
FinancingItems(inp_cost) ==
    (IF inp_cost.loan_amount > 0
     THEN <<Item("InitialAmount", "Retrofit Downpayment",
                 -(inp_cost.capital_cost - inp_cost.loan_amount)),
            [class |-> "EscalatingFlow", label |-> "Loan Payment", amount |-> loan_pmt(inp_cost),
             escalation_rate |-> 0, end_year |-> inp_cost.loan_term]>>
     ELSE <<Item("InitialAmount", "Retrofit Cost", -inp_cost.capital_cost)>>)
    \o (IF inp_cost.rebate_amount > 0
        THEN <<Item("InitialAmount", "Rebate", inp_cost.rebate_amount)>>
        ELSE <<>>)

\* Lines 117-135 and 144-162: the flow of a cost change under a forecast,
\* an escalation rate or a list of multipliers that starts at year 1.
ForecastItem(label, cost_chg, forecast) ==
    IF forecast.type = "float"
    THEN [class |-> "EscalatingFlow", label |-> label, amount |-> -cost_chg,
          escalation_rate |-> forecast.rate, end_year |-> None]
    ELSE [class |-> "PatternFlow", label |-> label, amount |-> -cost_chg,
          pattern |-> <<0>> \o forecast.pattern]

\* Lines 112-171: the energy and operating cost items.
EnergyItems(inp_cost, inp_econ, elec_cost_chg, fuel_cost_chg) ==
    <<ForecastItem("Electricity Cost", elec_cost_chg, inp_econ.elec_rate_forecast)>>
    \o (IF fuel_cost_chg # 0
        THEN <<ForecastItem("Fuel Cost", fuel_cost_chg, inp_econ.fuel_price_forecast)>>
        ELSE <<>>)
    \o <<[class |-> "EscalatingFlow", label |-> "Operating Cost Change",
          amount |-> -inp_cost.op_cost_chg,
          escalation_rate |-> inp_econ.inflation_rate, end_year |-> None]>>

\* Lines 174-179: the cash flow analysis of the items.
RetrofitFinancial(res, econ_inp) ==
    IF FirstRaise(econ_inp.cash_flow_items, econ_inp.duration) # ""
    THEN /\ pc' = "error"
         /\ err' = FirstRaise(econ_inp.cash_flow_items, econ_inp.duration)
         /\ UNCHANGED <<net_cash, results>>
    ELSE /\ pc' = "retrofit_analyzed"
         /\ UNCHANGED err
         /\ net_cash' = Val(NetCash(econ_inp.cash_flow_items, econ_inp.duration, 1, None))
         /\ \E irr \in npf_irr(Val(NetCash(econ_inp.cash_flow_items, econ_inp.duration, 1, None))) :
               results' = [res EXCEPT !.financial =
                   Results(econ_inp,
                           Val(NetCash(econ_inp.cash_flow_items, econ_inp.duration, 1, None)),
                           FlowTable(econ_inp.cash_flow_items, econ_inp.duration, 1,
                                     "Year" :> [y \in 1..(econ_inp.duration + 1) |-> y - 1]),
                           chg_nonnum(irr, None))]

\* Lines 49-179, once both simulations have returned.
RetrofitOf(en_base, en_post, elec_cost_chg) ==
    IF inp.retrofit_cost.loan_amount > 0 /\ loan_pmt_raises(inp.retrofit_cost) # ""
    THEN /\ pc' = "error"
         /\ err' = loan_pmt_raises(inp.retrofit_cost)
         /\ UNCHANGED <<net_cash, results>>
    ELSE RetrofitFinancial(
            [base_case_detail |-> en_base,
             with_retrofit_detail |-> en_post,
             misc |-> [co2_lbs_saved |-> en_base.annual_results.co2_lbs
                                            - en_post.annual_results.co2_lbs,
                       co2_driving_miles_saved |->
                           convert_co2_to_miles_driven(en_base.annual_results.co2_lbs
                                                       - en_post.annual_results.co2_lbs)],
             financial |-> None],
            [duration |-> inp.retrofit_cost.retrofit_life,
             discount_rate |-> Some(inp.economic_inputs.discount_rate),
             cash_flow_items |->
                FinancingItems(inp.retrofit_cost)
                \o EnergyItems(inp.retrofit_cost, inp.economic_inputs, elec_cost_chg,
                               en_post.annual_results.fuel_total_cost
                               - en_base.annual_results.fuel_total_cost - elec_cost_chg)])

\* Lines 41-47: the two simulations; an exception of either ends the call.
RetrofitRuns(en_base, en_post) ==
    IF en_base.raises # ""
    THEN pc' = "error" /\ err' = en_base.raises /\ UNCHANGED <<net_cash, results>>
    ELSE IF en_post.raises # ""
    THEN pc' = "error" /\ err' = en_post.raises /\ UNCHANGED <<net_cash, results>>
    ELSE RetrofitOf(en_base, en_post,
                    en_post.annual_results.fuel_cost["elec"]
                    - en_base.annual_results.fuel_cost["elec"])

\* analyze_retrofit(inp): tmy is the weather of the site of both buildings.
analyze_retrofit ==
    /\ pc = "retrofit"
    /\ RetrofitRuns(Simulate(inp.pre_bldg, tmy), Simulate(inp.post_bldg, tmy))
    /\ UNCHANGED <<inp, tmy, dfh, hp_load, conventional_load, hp_capacity_used, hourly, dfm,
                   avars, fvars, svars>>

\* ---- inputs

RetrofitCost(capital_cost, rebate_amount, retrofit_life, op_cost_chg, loan_amount, loan_term, loan_interest) ==
    [capital_cost |-> capital_cost, rebate_amount |-> rebate_amount,
     retrofit_life |-> retrofit_life, op_cost_chg |-> op_cost_chg,
     loan_amount |-> loan_amount, loan_term |-> loan_term, loan_interest |-> loan_interest]

\* A forecast given as one escalation rate, in percent.
RateForecast(rate) == [type |-> "float", rate |-> rate]

\* A forecast given as the list of the multipliers of the years from 1 on.
ListForecast(pattern) == [type |-> "list", pattern |-> pattern]

Forecasts == {RateForecast(0), RateForecast(100), ListForecast(<<1, 2>>)}

\* The costs of a retrofit paid at once, with or without a rebate; the
\* rebate amount is a float without constraint.
PaidRetrofits ==
    {RetrofitCost(30, r, life, oc, 0, None, None) :
        r \in {-5, 0, 5}, life \in 0..MaxDuration, oc \in {0, 2}}

\* The costs of a retrofit with a loan: its term and interest are optional.
LoanRetrofits ==
    {RetrofitCost(30, r, life, 0, 12, term, interest) :
        r \in {0, 5}, life \in 1..MaxDuration,
        term \in {None, Some(1), Some(2), Some(MaxDuration + 1)},
        interest \in {None, Some(0)}}

\* The building before the retrofit: without heat pump, or with one already.
PreBuildings ==
    {[BaseBuilding EXCEPT !.heat_pump = None],
     [BaseBuilding EXCEPT !.heat_pump = Some([BaseHeatPump EXCEPT !.max_out_5f = Some(8000)])]}

PostBuildings == {BaseBuilding}

RetrofitWeathers ==
    {WeatherOf([i \in 1..NumHours |-> IF i <= HoursPerDay THEN t ELSE 220]) : t \in {-200, 220}}

RetrofitInputs ==
    {[pre_bldg |-> pre, post_bldg |-> post, retrofit_cost |-> cost,
      economic_inputs |-> [elec_rate_forecast |-> ef, fuel_price_forecast |-> ff,
                           discount_rate |-> 0, inflation_rate |-> 0]] :
        pre \in PreBuildings, post \in PostBuildings,
        cost \in PaidRetrofits \cup LoanRetrofits,
        ef \in Forecasts, ff \in {RateForecast(0), ListForecast(<<1, 2>>)}}

InitRetrofit ==
    /\ pc = "retrofit"
    /\ err = ""
    /\ inp \in RetrofitInputs
    /\ tmy \in RetrofitWeathers
    /\ dfh = <<>>
    /\ hp_load = <<>>
    /\ conventional_load = <<>>
    /\ hp_capacity_used = <<>>
    /\ hourly = <<>>
    /\ dfm = <<>>
    /\ heap = <<>>
    /\ df_monthly = <<>>
    /\ annual = <<>>
    /\ net_cash = <<>>
    /\ results = <<>>
    /\ cache = <<>>
    /\ evicted = <<>>
    /\ calls = <<>>
    /\ shared = <<>>

NextRetrofit == analyze_retrofit

SpecRetrofit == InitRetrofit /\ [][NextRetrofit]_vars

-----------------------------------------------------------------------------
(* energy/energy_model.py: model_building calls that overlap in time        *)
(*                                                                         *)
(* Every call for a climate site is handed the site's weather frame by     *)
(* lib.tmy_df_from_id and assigns its hourly columns to that frame.  A     *)
(* call advances one statement at a time; the statements of two calls      *)
(* interleave in any order.                                                *)

Calls == {1, 2}

\* lib.tmy_df_from_id: the weather frame of the site, loaded once and reused
\* by every simulation for the site.
tmy_df_from_id(rows) ==
    [db_temp |-> [i \in DOMAIN rows |-> rows[i].db_temp],
     month |-> [i \in DOMAIN rows |-> rows[i].month],
     day_of_year |-> [i \in DOMAIN rows |-> rows[i].day_of_year]]

\* df[name] = col
SetColumn(df, name, col) ==
    [c \in DOMAIN df \cup {name} |-> IF c = name THEN col ELSE df[c]]

\* The weather rows of the frame.
WeatherRows(df) ==
    [i \in DOMAIN df.db_temp |->
        [db_temp |-> df.db_temp[i], day_of_year |-> df.day_of_year[i], month |-> df.month[i]]]

\* The statement that follows the assignment of a column: with a heat pump
\* the hourly loop and lines 287-292, without one lines 219-222.
NextStatement(building, stmt) ==
    IF IsNone(building.heat_pump)
    THEN CASE stmt = "running" -> "cop"
           [] stmt = "cop" -> "max_hp_output"
           [] stmt = "max_hp_output" -> "conventional_load_mmbtu"
           [] stmt = "conventional_load_mmbtu" -> "hp_load_mmbtu"
           [] stmt = "hp_load_mmbtu" -> "hp_capacity_used"
           [] stmt = "hp_capacity_used" -> "hp_kwh"
           [] stmt = "hp_kwh" -> "summary"
    ELSE CASE stmt = "running" -> "cop"
           [] stmt = "cop" -> "max_hp_output"
           [] stmt = "max_hp_output" -> "loop"
           [] stmt = "hp_load_mmbtu" -> "conventional_load_mmbtu"
           [] stmt = "conventional_load_mmbtu" -> "hp_capacity_used"
           [] stmt = "hp_capacity_used" -> "hp_kwh"
           [] stmt = "hp_kwh" -> "summary"

\* The column a call assigns at lines 128-170 from the weather of the frame.
InputColumn(building, df, name) ==
    CASE name = "running" -> RunningColumn(building, WeatherRows(df))
      [] name = "cop" ->
            IF IsNone(building.heat_pump) THEN [i \in DOMAIN df.db_temp |-> 100]
            ELSE [i \in DOMAIN df.db_temp |->
                     InterpFix(df.db_temp[i], PerformanceArrays(building, WeatherRows(df)).temps,
                               PerformanceArrays(building, WeatherRows(df)).cops)]
      [] name = "max_hp_output" ->
            IF IsNone(building.heat_pump) THEN [i \in DOMAIN df.db_temp |-> 0]
            ELSE [i \in DOMAIN df.db_temp |->
                     InterpFix(df.db_temp[i], PerformanceArrays(building, WeatherRows(df)).temps,
                               PerformanceArrays(building, WeatherRows(df)).max_capacities)]

\* The column a call assigns at lines 219-222 or 287-292: from its own lists
\* with a heat pump, and hp_kwh from the frame's hp_load_mmbtu and cop columns.
LoadColumn(call, df, name) ==
    IF IsNone(call.inp.heat_pump)
    THEN CASE name = "conventional_load_mmbtu" ->
                  [i \in DOMAIN df.db_temp |-> total_load(call.inp, df.db_temp[i])]
           [] name = "hp_load_mmbtu" -> [i \in DOMAIN df.db_temp |-> 0]
           [] name = "hp_capacity_used" -> [i \in DOMAIN df.db_temp |-> Ratio(0, 1)]
           [] name = "hp_kwh" -> [i \in DOMAIN df.db_temp |-> 0]
    ELSE CASE name = "conventional_load_mmbtu" -> call.conventional_load
           [] name = "hp_load_mmbtu" -> call.hp_load
           [] name = "hp_capacity_used" -> call.hp_capacity_used
           [] name = "hp_kwh" ->
                  [i \in DOMAIN df.db_temp |-> HpKwh(df.hp_load_mmbtu[i], df.cop[i])]

\* The heat pump load of hour i of the frame (lines 232-279).
LoopHpLoad(building, df, i) ==
    IF ~df.running[i] THEN 0
    ELSE LimitToCapacity(CandidateLoad(building, df.db_temp[i]), df.max_hp_output[i])

\* The monthly sums of the frame (lines 296-301).
FrameMonthly(df) ==
    [m \in Months |->
        [hp_load_mmbtu |-> SumSeq([i \in DOMAIN df.month |->
                              IF df.month[i] = m THEN df.hp_load_mmbtu[i] ELSE 0]),
         conventional_load_mmbtu |-> SumSeq([i \in DOMAIN df.month |->
                              IF df.month[i] = m THEN df.conventional_load_mmbtu[i] ELSE 0]),
         hp_kwh |-> SumSeq([i \in DOMAIN df.month |->
                              IF df.month[i] = m THEN df.hp_kwh[i] ELSE 0])]]

\* Whether one of the columns was last assigned by another call than c.
ReadsForeign(c, columns) == \E name \in columns : shared.writer[name] # c

\* Lines 128-170: running, cop or max_hp_output is assigned to the frame.
AssignInputColumn(c) ==
    /\ pc = "overlap"
    /\ calls[c].pc \in {"running", "cop", "max_hp_output"}
    /\ shared' = [shared EXCEPT
                    !.frame = SetColumn(@, calls[c].pc,
                                        InputColumn(calls[c].inp, shared.frame, calls[c].pc)),
                    !.writer = SetColumn(@, calls[c].pc, c)]
    /\ calls' = [calls EXCEPT ![c].pc = NextStatement(calls[c].inp, @)]
    /\ UNCHANGED <<pc, err, bvars, avars, evars, fvars>>

\* Lines 232-285: the hourly loop over the rows of the frame.
HourlyLoop(c) ==
    /\ pc = "overlap"
    /\ calls[c].pc = "loop"
    /\ LET df == shared.frame
           building == calls[c].inp
           raises == \E i \in DOMAIN df.db_temp : df.running[i] /\ df.max_hp_output[i] = 0
       IN  calls' = [calls EXCEPT
             ![c].pc = IF raises THEN "error" ELSE "hp_load_mmbtu",
             ![c].err = IF raises THEN "ZeroDivisionError" ELSE "",
             ![c].foreign = @ \/ ReadsForeign(c, {"running", "max_hp_output"}),
             ![c].hp_load =
                 IF raises THEN <<>>
                 ELSE [i \in DOMAIN df.db_temp |-> LoopHpLoad(building, df, i)],
             ![c].conventional_load =
                 IF raises THEN <<>>
                 ELSE [i \in DOMAIN df.db_temp |->
                          total_load(building, df.db_temp[i]) - LoopHpLoad(building, df, i)],
             ![c].hp_capacity_used =
                 IF raises THEN <<>>
                 ELSE [i \in DOMAIN df.db_temp |->
                          IF ~df.running[i] THEN Ratio(0, 1)
                          ELSE Ratio(LoopHpLoad(building, df, i), df.max_hp_output[i])]]
    /\ UNCHANGED <<pc, err, bvars, avars, evars, fvars, shared>>

\* Lines 219-222 and 287-292: a load column is assigned to the frame.
AssignLoadColumn(c) ==
    /\ pc = "overlap"
    /\ calls[c].pc \in {"hp_load_mmbtu", "conventional_load_mmbtu", "hp_capacity_used", "hp_kwh"}
    /\ shared' = [shared EXCEPT
                    !.frame = SetColumn(@, calls[c].pc,
                                        LoadColumn(calls[c], shared.frame, calls[c].pc)),
                    !.writer = SetColumn(@, calls[c].pc, c)]
    /\ calls' = [calls EXCEPT
          ![c].pc = NextStatement(calls[c].inp, @),
          ![c].foreign = @ \/ (calls[c].pc = "hp_kwh" /\ ~IsNone(calls[c].inp.heat_pump)
                               /\ ReadsForeign(c, {"hp_load_mmbtu", "cop"}))]
    /\ UNCHANGED <<pc, err, bvars, avars, evars, fvars>>

\* Lines 296-301: the monthly sums of the frame's load columns.
SummarizeFrame(c) ==
    /\ pc = "overlap"
    /\ calls[c].pc = "summary"
    /\ calls' = [calls EXCEPT
          ![c].pc = "done",
          ![c].dfm = FrameMonthly(shared.frame),
          ![c].foreign = @ \/ ReadsForeign(c, {"hp_load_mmbtu", "conventional_load_mmbtu",
                                               "hp_kwh"})]
    /\ UNCHANGED <<pc, err, bvars, avars, evars, fvars, shared>>

\* ---- inputs

\* The buildings of the two calls: the first has a heat pump, the second
\* has none or a heat pump that is switched off below a higher temperature.
OverlapBuildings ==
    {<<BaseBuilding, b>> :
        b \in {[BaseBuilding EXCEPT !.heat_pump = None],
               [BaseBuilding EXCEPT
                   !.heat_pump = Some([BaseHeatPump EXCEPT !.low_temp_cutoff = Some(300)])]}}

NewCall(building) ==
    [pc |-> "running", inp |-> building, err |-> "", foreign |-> FALSE,
     hp_load |-> <<>>, conventional_load |-> <<>>, hp_capacity_used |-> <<>>, dfm |-> <<>>]

InitOverlap ==
    /\ pc = "overlap"
    /\ err = ""
    /\ inp = <<>>
    /\ tmy \in RetrofitWeathers
    /\ dfh = <<>>
    /\ hp_load = <<>>
    /\ conventional_load = <<>>
    /\ hp_capacity_used = <<>>
    /\ hourly = <<>>
    /\ dfm = <<>>
    /\ heap = <<>>
    /\ df_monthly = <<>>
    /\ annual = <<>>
    /\ net_cash = <<>>
    /\ results = <<>>
    /\ cache = <<>>
    /\ evicted = <<>>
    /\ \E bs \in OverlapBuildings : calls = [c \in Calls |-> NewCall(bs[c])]
    /\ shared = [frame |-> tmy_df_from_id(tmy), writer |-> <<>>]

NextOverlap ==
    \E c \in Calls :
        \/ AssignInputColumn(c)
        \/ HourlyLoop(c)
        \/ AssignLoadColumn(c)
        \/ SummarizeFrame(c)

SpecOverlap == InitOverlap /\ [][NextOverlap]_vars

-----------------------------------------------------------------------------
(* library/library.py: util_from_id, and the price overrides of             *)
(* model_building (energy_model.py lines 339-359)                          *)
(*                                                                         *)
(* The rows of df_util and the Utility objects are objects of the heap.    *)
(* Amounts are Ratio records, None where a field is absent.                *)

\* the number of price set-ups and utility look-ups of a run
MaxCalls == 2

Flt(x) == Ratio(x, 1)

\* h with obj at the address a
PutObject(h, a, obj) ==
    [x \in DOMAIN h \cup {a} |-> IF x = a THEN obj ELSE h[x]]

\* The address of the row of df_util for the utility.
UtilRow(util_id) == <<"df_util", util_id>>

\* NaNtoNone on the dictionary of a row: NaN cells become None.
NaNtoNone(d) ==
    [k \in DOMAIN d |-> IF k \in {"PCE", "CO2", "CustomerChg", "DemandCharge"} /\ d[k] = NaN
                        THEN None ELSE d[k]]

\* A mistaken util_from_id: the row's own object is handed out.
SameUtility(h, util_id) == [heap |-> h, ref |-> UtilRow(util_id)]

\* util_from_id(util_id): a new Utility object made from the row's dictionary.
util_from_id(h, util_id) ==
    [heap |-> PutObject(h, <<"Utility", Cardinality(DOMAIN h)>>,
                        [NaNtoNone(h[UtilRow(util_id)]) EXCEPT !.id = util_id]),
     ref |-> <<"Utility", Cardinality(DOMAIN h)>>]

\* Lines 344-354: the overrides are assigned to the fields of elec_util.
RateOverridden(h, elec_util, prices) ==
    IF IsNone(prices.elec_rate_override) THEN h
    ELSE [h EXCEPT ![elec_util].Blocks = <<<<None, Flt(Val(prices.elec_rate_override))>>>>,
                   ![elec_util].DemandCharge = Flt(0)]

PceOverridden(h, elec_util, prices) ==
    IF IsNone(prices.pce_rate_override) THEN h
    ELSE [h EXCEPT ![elec_util].PCE = Flt(Val(prices.pce_rate_override))]

CustomerChargeOverridden(h, elec_util, prices) ==
    IF IsNone(prices.customer_charge_override) THEN h
    ELSE [h EXCEPT ![elec_util].CustomerChg = Flt(Val(prices.customer_charge_override))]

Co2Overridden(h, elec_util, prices) ==
    IF IsNone(prices.co2_lbs_per_kwh_override) THEN h
    ELSE [h EXCEPT ![elec_util].CO2 = Flt(Val(prices.co2_lbs_per_kwh_override))]

Overridden(h, elec_util, prices) ==
    Co2Overridden(
        CustomerChargeOverridden(
            PceOverridden(RateOverridden(h, elec_util, prices), elec_util, prices),
            elec_util, prices),
        elec_util, prices)

\* The call is logged with the utility record its calculation goes on with.
Logged(kind, prices, h, elec_util) ==
    /\ heap' = h
    /\ calls' = Append(calls, [kind |-> kind, prices |-> prices, elec_util |-> h[elec_util]])

\* Lines 340-359 of a model_building call with the prices.
PricedWith(prices, made) ==
    Logged("model_building", prices, Overridden(made.heap, made.ref, prices), made.ref)

\* ---- inputs

\* df_util: a two-block schedule with a demand charge, and a flat schedule
\* whose PCE cell is NaN.
UtilityData ==
    [u \in {UtilRow(1), UtilRow(2)} |->
        IF u = UtilRow(1)
        THEN [id |-> 0, Name |-> "block", PCE |-> Flt(4), CO2 |-> Flt(1),
              CustomerChg |-> Flt(8), DemandCharge |-> Flt(6),
              Blocks |-> <<<<Flt(500), Flt(20)>>, <<None, Flt(15)>>>>]
        ELSE [id |-> 0, Name |-> "flat", PCE |-> NaN, CO2 |-> Flt(2),
              CustomerChg |-> Flt(5), DemandCharge |-> Flt(0),
              Blocks |-> <<<<None, Flt(30)>>>>]]

EnergyPrices(utility_id, elec_rate, pce_rate, customer_charge, co2) ==
    [utility_id |-> utility_id, elec_rate_override |-> elec_rate,
     pce_rate_override |-> pce_rate, customer_charge_override |-> customer_charge,
     co2_lbs_per_kwh_override |-> co2]

NoOverrides(utility_id) == EnergyPrices(utility_id, None, None, None, None)

PriceInputs ==
    {EnergyPrices(u, r, p, c, o) :
        u \in {1, 2}, r \in {None, Some(25)}, p \in {None, Some(3)},
        c \in {None, Some(9)}, o \in {None, Some(7)}}

InitUtil ==
    /\ pc = "prices"
    /\ err = ""
    /\ inp = <<>>
    /\ tmy = <<>>
    /\ dfh = <<>>
    /\ hp_load = <<>>
    /\ conventional_load = <<>>
    /\ hp_capacity_used = <<>>
    /\ hourly = <<>>
    /\ dfm = <<>>
    /\ heap = UtilityData
    /\ df_monthly = <<>>
    /\ annual = <<>>
    /\ net_cash = <<>>
    /\ results = <<>>
    /\ cache = <<>>
    /\ evicted = <<>>
    /\ calls = <<>>
    /\ shared = <<>>

\* model_building, lines 330-359: the utility of the prices with their overrides.
PriceSetup ==
    /\ pc = "prices"
    /\ Len(calls) < MaxCalls
    /\ \E prices \in PriceInputs : PricedWith(prices, util_from_id(heap, prices.utility_id))
    /\ UNCHANGED <<pc, err, bvars, df_monthly, annual, evars, fvars, shared>>

\* GET /lib/utilities/{utility_id}: the utility as the library gives it.
UtilityLookup ==
    /\ pc = "prices"
    /\ Len(calls) < MaxCalls
    /\ \E u \in {1, 2} :
          Logged("lookup", NoOverrides(u), util_from_id(heap, u).heap, util_from_id(heap, u).ref)
    /\ UNCHANGED <<pc, err, bvars, df_monthly, annual, evars, fvars, shared>>

NextUtil == PriceSetup \/ UtilityLookup

SpecUtil == InitUtil /\ [][NextUtil]_vars

-----------------------------------------------------------------------------
(* library/library.py: the module-level datasets and refresh_data          *)
(*                                                                         *)
(* The module is imported once, which runs refresh_data statement by       *)
(* statement; the look-ups are served after the import.  Time is in whole  *)
(* hours; a dataset is the version of the remote data it was read from     *)
(* and how far refresh_data has prepared it.                               *)

\* hours between two downloads of the data (line 41)
LIB_TIMEOUT == 12

\* the hours a run lasts
MaxHours == 14

\* the versions of the data the remote site publishes during a run
MaxVersions == 2

\* get_df / read_excel: the table as stored, at the remote site's version.
get_df(version) == [version |-> version, stage |-> "read"]

\* The statements of refresh_data in order (lines 161-192), then serving.
RefreshStatements ==
    <<"ts", "tmy_meta", "city", "city_column", "util", "util_query", "util_drop",
      "fuel", "fuel_btus", "fuel_effic", "serving">>

StatementAfter(stmt) ==
    RefreshStatements[(CHOOSE i \in DOMAIN RefreshStatements : RefreshStatements[i] = stmt) + 1]

\* The module's variables after the statement.
Refreshed(lib, stmt) ==
    CASE stmt = "ts" -> [lib EXCEPT !.last_lib_download_ts = lib.now]
      [] stmt = "tmy_meta" -> [lib EXCEPT !.df_tmy_meta = [get_df(lib.remote) EXCEPT !.stage = "ready"]]
      [] stmt = "city" -> [lib EXCEPT !.df_city = get_df(lib.remote)]
      [] stmt = "city_column" -> [lib EXCEPT !.df_city.stage = "ready"]
      [] stmt = "util" -> [lib EXCEPT !.df_util = get_df(lib.remote)]
      [] stmt = "util_query" -> [lib EXCEPT !.df_util.stage = "active"]
      [] stmt = "util_drop" -> [lib EXCEPT !.df_util.stage = "ready"]
      [] stmt = "fuel" -> [lib EXCEPT !.df_fuel = get_df(lib.remote)]
      [] stmt = "fuel_btus" -> [lib EXCEPT !.df_fuel.stage = "btus"]
      [] stmt = "fuel_effic" -> [lib EXCEPT !.df_fuel.stage = "ready"]

Datasets == {"df_tmy_meta", "df_city", "df_util", "df_fuel"}

InitLibrary ==
    /\ pc = "ts"
    /\ err = ""
    /\ inp = <<>>
    /\ tmy = <<>>
    /\ dfh = <<>>
    /\ hp_load = <<>>
    /\ conventional_load = <<>>
    /\ hp_capacity_used = <<>>
    /\ hourly = <<>>
    /\ dfm = <<>>
    /\ heap = <<>>
    /\ df_monthly = <<>>
    /\ annual = <<>>
    /\ net_cash = <<>>
    /\ results = <<>>
    /\ cache = <<>>
    /\ evicted = <<>>
    /\ calls = <<>>
    /\ shared = [now |-> 0, remote |-> 1, last_lib_download_ts |-> 0,
                 df_tmy_meta |-> None, df_city |-> None, df_util |-> None, df_fuel |-> None]

\* The import of the module runs the next statement of refresh_data (line 207).
refresh_data ==
    /\ pc # "serving"
    /\ pc \in {RefreshStatements[i] : i \in DOMAIN RefreshStatements}
    /\ shared' = Refreshed(shared, pc)
    /\ pc' = StatementAfter(pc)
    /\ UNCHANGED <<err, bvars, avars, evars, fvars, calls>>

\* A look-up (city_from_id, util_from_id, fuel_from_id, tmys) reads all four
\* datasets as they are: the process serves once the import is done.  Only
\* the last look-up is kept; odd tells one look-up from the next.
Lookup ==
    /\ pc = "serving"
    /\ calls' = <<[at |-> shared.now, seen |-> [d \in Datasets |-> shared[d]],
                   odd |-> IF calls = <<>> THEN TRUE ELSE ~calls[1].odd]>>
    /\ UNCHANGED <<pc, err, bvars, avars, evars, fvars, shared>>

\* An hour passes.
HourPasses ==
    /\ pc \in {RefreshStatements[i] : i \in DOMAIN RefreshStatements}
    /\ shared.now < MaxHours
    /\ shared' = [shared EXCEPT !.now = @ + 1]
    /\ UNCHANGED <<pc, err, bvars, avars, evars, fvars, calls>>

\* The remote site publishes new data.
RemoteUpdate ==
    /\ pc \in {RefreshStatements[i] : i \in DOMAIN RefreshStatements}
    /\ shared.remote < MaxVersions
    /\ shared' = [shared EXCEPT !.remote = @ + 1]
    /\ UNCHANGED <<pc, err, bvars, avars, evars, fvars, calls>>

NextLibrary == refresh_data \/ Lookup \/ HourPasses \/ RemoteUpdate

\* The import goes on to its end, look-ups keep being served, time passes.
SpecLibrary ==
    /\ InitLibrary
    /\ [][NextLibrary]_vars
    /\ WF_vars(refresh_data)
    /\ WF_vars(Lookup)
    /\ WF_vars(HourPasses)

-----------------------------------------------------------------------------
(* app.py: the loggers and global_exception_handler                        *)
(*                                                                         *)
(* A request is routed to its handler, which returns or raises.  An        *)
(* exception that leaves the handler goes to global_exception_handler;     *)
(* the framework sends the handler's response and raises the exception on  *)
(* to the server, which logs it on the logger uvicorn.error and goes on    *)
(* serving.  shared.log holds the records written for the request.         *)

\* the requests of a run
MaxRequests == 2

\* The number of a logging level.
LevelNo(level) ==
    CASE level = "INFO" -> 20
      [] level = "ERROR" -> 40
      [] level = "CRITICAL" -> 50

\* The level of uvicorn.error when it is left as the server sets it.
UvicornDefaultLevel == "INFO"

\* Lines 84-85: uvicorn_error_logger.setLevel(logging.CRITICAL)
uvicorn_error_level == "CRITICAL"

\* Line 80: logger.setLevel(logging.INFO)
app_logger_level == "INFO"

\* A record of the level is written by a logger of the threshold.
IsEnabledFor(threshold, level) == LevelNo(level) >= LevelNo(threshold)

\* The detail text of line 112.
GenericDetail ==
    "An error occurred in the Heat Pump Calculator API. Please contact the developer and report the following error time:"

\* traceback.format_exception(type(exc), exc, exc.__traceback__), lines 96-98
format_exception(exc) == [type |-> exc.type, message |-> exc.message]

\* logger.error(...) of lines 101-106 on the log.
LoggedError(log, request, exc) ==
    IF IsEnabledFor(app_logger_level, "ERROR")
    THEN Append(log, [logger |-> "app", level |-> "ERROR", method |-> request.method,
                      path |-> request.path, traceback |-> format_exception(exc)])
    ELSE log

\* The JSONResponse of lines 109-115.
ErrorResponse(now) ==
    [status_code |-> 500,
     content |-> [detail |-> GenericDetail, timestamp |-> now]]

\* ---- inputs

\* What the handler of a request does: it returns, or raises an exception
\* whose message quotes the input.
Outcomes ==
    {[type |-> "", message |-> ""]}
    \cup {[type |-> t, message |-> m] :
            t \in {"KeyError", "ZeroDivisionError", "AttributeError", "ResponseValidationError"},
            m \in {"city_id 999", "float division by zero"}}

Requests ==
    {[method |-> r[1], path |-> r[2], outcome |-> o] :
        r \in {<<"GET", "/lib/cities/999">>, <<"POST", "/energy/energy-model">>,
               <<"POST", "/energy/fit-model">>, <<"POST", "/econ/analyze-cash-flows">>},
        o \in Outcomes}

InitServer ==
    /\ pc = "idle"
    /\ err = ""
    /\ inp = <<>>
    /\ tmy = <<>>
    /\ dfh = <<>>
    /\ hp_load = <<>>
    /\ conventional_load = <<>>
    /\ hp_capacity_used = <<>>
    /\ hourly = <<>>
    /\ dfm = <<>>
    /\ heap = <<>>
    /\ df_monthly = <<>>
    /\ annual = <<>>
    /\ net_cash = <<>>
    /\ results = <<>>
    /\ cache = <<>>
    /\ evicted = <<>>
    /\ calls = <<>>
    /\ shared = [log |-> <<>>, now |-> 0, failed |-> FALSE]

\* A request arrives and is routed to its handler.
ReceiveRequest ==
    /\ pc \in {"idle", "done"}
    /\ shared.now < MaxRequests
    /\ \E request \in Requests : inp' = request
    /\ pc' = "handler"
    /\ results' = <<>>
    /\ shared' = [shared EXCEPT !.log = <<>>, !.now = @ + 1,
                                !.failed = @ \/ (pc = "done" /\ inp.outcome.type # "")]
    /\ UNCHANGED <<err, tmy, dfh, hp_load, conventional_load, hp_capacity_used, hourly, dfm,
                   avars, net_cash, fvars, calls>>

\* The handler returns: its result is the response.
HandlerReturns ==
    /\ pc = "handler"
    /\ inp.outcome.type = ""
    /\ results' = <<[status_code |-> 200, content |-> [result |-> inp.path]]>>
    /\ pc' = "done"
    /\ UNCHANGED <<err, bvars, avars, net_cash, fvars, svars>>

\* Lines 91-116: the exception left the handler.
global_exception_handler ==
    /\ pc = "handler"
    /\ inp.outcome.type # ""
    /\ shared' = [shared EXCEPT !.log = LoggedError(@, inp, inp.outcome)]
    /\ results' = Append(results, ErrorResponse(shared.now))
    /\ pc' = "reraised"
    /\ UNCHANGED <<err, bvars, avars, net_cash, fvars, calls>>

\* The exception reaches the server after the response is sent: the server
\* logs it on uvicorn.error and goes on with the next request.
ServerLogsException ==
    /\ pc = "reraised"
    /\ shared' = [shared EXCEPT !.log =
                     IF IsEnabledFor(uvicorn_error_level, "ERROR")
                     THEN Append(@, [logger |-> "uvicorn.error", level |-> "ERROR",
                                     method |-> "", path |-> "",
                                     traceback |-> format_exception(inp.outcome)])
                     ELSE @]
    /\ pc' = "done"
    /\ UNCHANGED <<err, bvars, avars, evars, fvars, calls>>

NextServer == ReceiveRequest \/ HandlerReturns \/ global_exception_handler \/ ServerLogsException

SpecServer == InitServer /\ [][NextServer]_vars

-----------------------------------------------------------------------------
(* energy/energy_model.py: one running hour of the hourly loop             *)
(*                                                                         *)
(* The body of the loop for an hour in which the heat pump runs, as a      *)
(* function of the building and of the hour's row.                         *)

\* The hour's loads as lines 236-285 leave them.
RunningHourLoads(building, h) ==
    [home_load |-> home_load(building, h.db_temp),
     garage_load |-> garage_load(building, h.db_temp),
     temp_depress |-> temp_depression(building.ua_per_ft2, balance_point_home(building),
                                      h.db_temp,
                                      Val(building.heat_pump).doors_open_to_adjacent),
     candidate |-> CandidateLoad(building, h.db_temp),
     hp_ld |-> LimitToCapacity(CandidateLoad(building, h.db_temp), h.max_hp_output),
     conventional |-> total_load(building, h.db_temp)
                      - LimitToCapacity(CandidateLoad(building, h.db_temp), h.max_hp_output)]

\* ---- inputs

\* Buildings of three envelopes whose heat pumps differ in what they serve.
HourBuildings ==
    {[BaseBuilding EXCEPT
          !.ua_per_ft2 = ua,
          !.heat_pump = Some([BaseHeatPump EXCEPT
                                 !.low_temp_cutoff = None,
                                 !.frac_exposed_to_hp = 40, !.frac_adjacent_to_hp = fa,
                                 !.doors_open_to_adjacent = d, !.bedroom_temp_tolerance = tol,
                                 !.serves_garage = g])] :
        ua \in {10, 19, 40}, fa \in {30, 60}, d \in BOOLEAN,
        tol \in {"low", "med", "high"}, g \in BOOLEAN}

\* Hours from -20 F to 65 F, the heat pump's output above or below the load.
RunningHours ==
    {[db_temp |-> t, running |-> TRUE, max_hp_output |-> mx] :
        t \in {-200, 220, 500, 600, 620, 650}, mx \in {4000, 100000}}

InitHour ==
    /\ pc = "hour"
    /\ err = ""
    /\ inp \in HourBuildings
    /\ \E h \in RunningHours : tmy = <<h>>
    /\ dfh = <<>>
    /\ hp_load = <<>>
    /\ conventional_load = <<>>
    /\ hp_capacity_used = <<>>
    /\ hourly = <<>>
    /\ dfm = <<>>
    /\ heap = <<>>
    /\ df_monthly = <<>>
    /\ annual = <<>>
    /\ net_cash = <<>>
    /\ results = <<>>
    /\ cache = <<>>
    /\ evicted = <<>>
    /\ calls = <<>>
    /\ shared = <<>>

\* Lines 236-285 for the hour.
RunningHour ==
    /\ pc = "hour"
    /\ hourly' = <<RunningHourLoads(inp, tmy[1])>>
    /\ pc' = "dispatched"
    /\ UNCHANGED <<err, inp, tmy, dfh, hp_load, conventional_load, hp_capacity_used, dfm,
                   avars, evars, fvars, svars>>

NextHour == RunningHour

SpecHour == InitHour /\ [][NextHour]_vars

-----------------------------------------------------------------------------
(* Properties of the hourly dispatch *)

ValidFractions(hp) ==
    /\ hp.frac_exposed_to_hp >= 0
    /\ hp.frac_adjacent_to_hp >= 0
    /\ hp.frac_exposed_to_hp + hp.frac_adjacent_to_hp <= 100

\* C1: with valid fractions, or without a heat pump, every hour has
\* conventional load = total load - heat pump load, and neither load is negative.
C1_LoadSplit ==
    /\ \A i \in 1..Len(hp_load) :
          (IsNone(inp.heat_pump) \/ ValidFractions(Val(inp.heat_pump))) =>
              /\ conventional_load[i] = total_load(inp, dfh[i].db_temp) - hp_load[i]
              /\ hp_load[i] >= 0
              /\ conventional_load[i] >= 0
    /\ \A i \in 1..Len(hourly) :
          (IsNone(inp.heat_pump) \/ ValidFractions(Val(inp.heat_pump))) =>
              /\ hourly[i].conventional_load_mmbtu
                     = total_load(inp, dfh[i].db_temp) - hourly[i].hp_load_mmbtu
              /\ hourly[i].hp_load_mmbtu >= 0
              /\ hourly[i].conventional_load_mmbtu >= 0

\* C2: in every hour processed with the heat pump running the assigned load is
\* at most the hour's maximum output and the recorded capacity used is a defined
\* number in [0, 1], whatever the maximum output; in the other hours it is 0.
C2_CapacityUsedDefined ==
    /\ err # "ZeroDivisionError"
    /\ \A i \in 1..Len(hp_load) :
          /\ i <= Len(hp_capacity_used)
          /\ IF dfh[i].running
             THEN /\ hp_load[i] <= dfh[i].max_hp_output
                  /\ IsFinite(hp_capacity_used[i])
                  /\ RatioLeq(Ratio(0, 1), hp_capacity_used[i])
                  /\ RatioLeq(hp_capacity_used[i], Ratio(1, 1))
             ELSE hp_capacity_used[i] = Ratio(0, 1)

\* The temperatures of the calendar day of row i of the weather.
TempsOfDayOf(i) == TempsOf(DayRows(tmy, tmy[i].day_of_year))

\* The day of row i may run: no cutoff, or its 20th percentile is above the cutoff.
DayEligible(i) ==
    \/ IsNone(Val(inp.heat_pump).low_temp_cutoff)
    \/ Quantile20x5(TempsOfDayOf(i)) > 5 * Val(Val(inp.heat_pump).low_temp_cutoff)

InOffMonth(i) ==
    /\ ~IsNone(Val(inp.heat_pump).off_months)
    /\ tmy[i].month \in Val(Val(inp.heat_pump).off_months)

\* C3: with a heat pump, the running flag is one per calendar day, true exactly
\* when the day's 20th percentile temperature is strictly above the cutoff (or no
\* cutoff is given) and the month is not an off month; an hour that is not
\* running has no heat pump load, uses no capacity and is served conventionally.
C3_DailyEligibility ==
    (Len(dfh) > 0 /\ ~IsNone(inp.heat_pump)) =>
        /\ \A i, j \in 1..Len(dfh) :
              dfh[i].day_of_year = dfh[j].day_of_year => dfh[i].running = dfh[j].running
        /\ \A i \in 1..Len(dfh) :
              /\ dfh[i].running => DayEligible(i)
              /\ InOffMonth(i) => ~dfh[i].running
              /\ (DayEligible(i) /\ ~InOffMonth(i)) => dfh[i].running
        /\ \A i \in 1..Len(hp_load) :
              ~dfh[i].running =>
                  /\ hp_load[i] = 0
                  /\ hp_capacity_used[i] = Ratio(0, 1)
                  /\ conventional_load[i] = total_load(inp, dfh[i].db_temp)
        /\ \A i \in 1..Len(hourly) :
              ~dfh[i].running =>
                  /\ hourly[i].hp_load_mmbtu = 0
                  /\ hourly[i].hp_capacity_used = Ratio(0, 1)
                  /\ hourly[i].conventional_load_mmbtu = total_load(inp, dfh[i].db_temp)

\* A day that is not eligible although one of its hours is warmer than the
\* cutoff, next to a day that runs, and a day exactly at the cutoff.
C3_Witness ==
    /\ pc = "summary"
    /\ ~IsNone(inp.heat_pump)
    /\ ~IsNone(Val(inp.heat_pump).low_temp_cutoff)
    /\ \E i \in 1..Len(dfh) :
          /\ ~dfh[i].running
          /\ ~InOffMonth(i)
          /\ dfh[i].db_temp > Val(Val(inp.heat_pump).low_temp_cutoff)
          /\ hourly[i].hp_load_mmbtu = 0
    /\ \E i \in 1..Len(dfh) : dfh[i].running /\ hourly[i].hp_load_mmbtu > 0

-----------------------------------------------------------------------------
(* Properties of the monthly and annual aggregation *)

SumCols ==
    {"hp_load_mmbtu", "hp_kwh", "conventional_load_mmbtu", "conventional_load_mmbtu_primary",
     "conventional_load_mmbtu_secondary", "fuel_total_cost", "co2_lbs"}

\* The sum of a field over the months of the frame.
MonthsTotal(field) == SumSeq([m \in 1..Len(df_monthly) |-> df_monthly[m][field]])

\* C4: each summed field of the annual series is the sum of its monthly values.
C4_AnnualSums ==
    pc = "annual" => \A f \in SumCols : annual[f] = MonthsTotal(f)

\* Two months with different heat pump loads have been added up.
C4_Witness ==
    /\ pc = "annual"
    /\ \E m1, m2 \in 1..Len(df_monthly) :
          /\ df_monthly[m1].hp_load_mmbtu > 0
          /\ df_monthly[m2].hp_load_mmbtu > df_monthly[m1].hp_load_mmbtu
          /\ df_monthly[m1].co2_lbs # df_monthly[m2].co2_lbs
    /\ annual.hp_load_mmbtu > 0

\* The sum of an hourly column over the hours of month m.
HoursTotal(m, field) ==
    SumSeq([i \in 1..Len(hourly) |-> IF dfh[i].month = m THEN hourly[i][field] ELSE 0])

\* C5: the annual peak fields are the largest monthly values; the annual load
\* fraction and COP are computed from the annual sums, the COP being absent
\* without heat pump electricity; the monthly ratios are computed from the
\* month's sums of the hourly values.
C5_PeaksAndRatios ==
    /\ pc = "annual" =>
          /\ \E m \in 1..Len(df_monthly) :
                annual.hp_capacity_used_max = df_monthly[m].hp_capacity_used_max
          /\ \A m \in 1..Len(df_monthly) :
                RatioLeq(df_monthly[m].hp_capacity_used_max, annual.hp_capacity_used_max)
          /\ \E m \in 1..Len(df_monthly) : annual.elec_demand = df_monthly[m].elec_demand
          /\ \A m \in 1..Len(df_monthly) : df_monthly[m].elec_demand <= annual.elec_demand
          /\ annual.hp_load_frac
                 = Ratio(MonthsTotal("hp_load_mmbtu"),
                         MonthsTotal("hp_load_mmbtu") + MonthsTotal("conventional_load_mmbtu"))
          /\ IF MonthsTotal("hp_kwh") > 0
             THEN annual.cop = Ratio(MonthsTotal("hp_load_mmbtu") * 100, MonthsTotal("hp_kwh") * 3412)
             ELSE IsNaN(annual.cop)
    /\ pc = "monthly" =>
          \A m \in Months :
              /\ dfm[m].hp_load_frac
                     = Ratio(HoursTotal(m, "hp_load_mmbtu"),
                             HoursTotal(m, "hp_load_mmbtu") + HoursTotal(m, "conventional_load_mmbtu"))
              /\ dfm[m].cop = Ratio(HoursTotal(m, "hp_load_mmbtu") * 100, HoursTotal(m, "hp_kwh") * 3412)

\* A year whose peak is not in its last month and whose load fraction is that
\* of no month.
C5_Witness ==
    /\ pc = "annual"
    /\ annual.hp_kwh > 0
    /\ annual.hp_capacity_used_max # df_monthly[Len(df_monthly)].hp_capacity_used_max
    /\ annual.elec_demand # df_monthly[Len(df_monthly)].elec_demand
    /\ \A m \in 1..Len(df_monthly) : annual.hp_load_frac # df_monthly[m].hp_load_frac
    /\ \E m \in 1..Len(df_monthly) : df_monthly[m].hp_kwh = 0

\* The value of the two-level dict at an address of the heap h.
MapAt(h, address) == [k1 \in DOMAIN h[address] |-> h[h[address][k1]]]

\* m[k1][k2], 0 when the entry is missing
MapGet(m, k1, k2) == IF k1 \in DOMAIN m /\ k2 \in DOMAIN m[k1] THEN m[k1][k2] ELSE 0

\* The annual map of a field is the key-by-key sum of the monthly maps.
IsKeywiseSum(field) ==
    /\ KeyPairs(annual[field])
           = UNION {KeyPairs(MapAt(heap, df_monthly[m][field])) : m \in 1..Len(df_monthly)}
    /\ \A kp \in KeyPairs(annual[field]) :
          annual[field][kp[1]][kp[2]]
              = SumSeq([m \in 1..Len(df_monthly) |->
                           MapGet(MapAt(heap, df_monthly[m][field]), kp[1], kp[2])])

FuelMapsSummed ==
    pc = "annual" =>
        /\ IsKeywiseSum("fuel_use_mmbtu")
        /\ IsKeywiseSum("fuel_use_units")
        /\ DOMAIN annual.fuel_cost = UNION {DOMAIN df_monthly[m].fuel_cost : m \in 1..Len(df_monthly)}
        /\ \A fuel \in DOMAIN annual.fuel_cost :
              annual.fuel_cost[fuel]
                  = SumSeq([m \in 1..Len(df_monthly) |-> DictGet(df_monthly[m].fuel_cost, fuel, 0)])

MonthlyMapsUnchanged ==
    /\ df_monthly' = df_monthly
    /\ \A m \in 1..Len(df_monthly) :
          /\ MapAt(heap', df_monthly[m].fuel_use_mmbtu) = MapAt(heap, df_monthly[m].fuel_use_mmbtu)
          /\ MapAt(heap', df_monthly[m].fuel_use_units) = MapAt(heap, df_monthly[m].fuel_use_units)

\* C6: the annual fuel-use maps are the key-by-key sums of the monthly maps over
\* the union of their key pairs, the annual cost map is the per-fuel sum of the
\* monthly cost maps, and the merge leaves the monthly maps as they were.
C6_FuelMaps == [](FuelMapsSummed) /\ [][MonthlyMapsUnchanged]_vars

\* An entry summed over two months and an entry that one month lacks.
C6_Witness ==
    /\ pc = "annual"
    /\ \E kp \in KeyPairs(annual.fuel_use_mmbtu) :
          \E m1, m2 \in 1..Len(df_monthly) :
              /\ MapGet(MapAt(heap, df_monthly[m1].fuel_use_mmbtu), kp[1], kp[2]) > 0
              /\ MapGet(MapAt(heap, df_monthly[m2].fuel_use_mmbtu), kp[1], kp[2]) > 0
              /\ m1 # m2
    /\ \E kp \in KeyPairs(annual.fuel_use_units) :
          \E m \in 1..Len(df_monthly) : kp \notin KeyPairs(MapAt(heap, df_monthly[m].fuel_use_units))
    /\ \E m \in 1..Len(df_monthly) : DOMAIN annual.fuel_cost # DOMAIN df_monthly[m].fuel_cost

-----------------------------------------------------------------------------
(* Properties of the cash flow analysis *)

\* The cumulative net cash by year.
CumNet == cumsum(net_cash)

\* The linear interpolation of cum between the whole years around the year
\* y = num / den (den > 0) is exactly 0.
ZeroAt(cum, y) ==
    IF y.num % y.den = 0
    THEN cum[(y.num \div y.den) + 1] = 0
    ELSE cum[(y.num \div y.den) + 1] * y.den
         + (cum[(y.num \div y.den) + 2] - cum[(y.num \div y.den) + 1]) * (y.num % y.den) = 0

\* C7: when the cumulative net cash is negative in some year and not negative
\* in the last one, the simple payback is a year between 0 and the duration at
\* which the interpolated cumulative net cash is exactly 0.
C7_InterpolatedCrossing ==
    (/\ pc = "analyzed"
     /\ \E y \in 1..Len(net_cash) : CumNet[y] < 0
     /\ CumNet[Len(net_cash)] >= 0)
    => /\ ~IsNone(results.simple_payback)
       /\ Val(results.simple_payback).den > 0
       /\ Val(results.simple_payback).num >= 0
       /\ Val(results.simple_payback).num <= inp.duration * Val(results.simple_payback).den
       /\ ZeroAt(CumNet, Val(results.simple_payback))

\* C8: when the cumulative net cash is negative in no year, the simple payback is 0.
C8_NeverNegative ==
    (pc = "analyzed" /\ \A y \in 1..Len(net_cash) : CumNet[y] >= 0)
    => /\ ~IsNone(results.simple_payback)
       /\ Val(results.simple_payback).den > 0
       /\ Val(results.simple_payback).num = 0

\* The discounted net cash accumulated over all the years, in units of 1 / DiscScale.
DiscountedTotal ==
    SumSeq([y \in 1..Len(net_cash) |->
               net_cash[y] * Pow(OnePlusRate(Val(inp.discount_rate)).den, y - 1)
                           * Pow(OnePlusRate(Val(inp.discount_rate)).num, Len(net_cash) - y)])

\* C9: a payback is absent, without an error, when the final cumulative value
\* is negative, and is a number only when that value is not negative; this
\* holds for the simple payback on the net cash and for the discounted
\* payback on the discounted cash.
C9_NeverRecovered ==
    pc = "analyzed" =>
        /\ err = ""
        /\ CumNet[Len(net_cash)] < 0 => IsNone(results.simple_payback)
        /\ ~IsNone(results.simple_payback) => CumNet[Len(net_cash)] >= 0
        /\ ~IsNone(inp.discount_rate) =>
              /\ DiscountedTotal < 0 => IsNone(results.discounted_payback)
              /\ ~IsNone(results.discounted_payback) => DiscountedTotal >= 0

\* A cash flow that is recovered, but not once it is discounted, and that
\* dips below zero on the way.
C9_Witness ==
    /\ pc = "analyzed"
    /\ ~IsNone(inp.discount_rate)
    /\ ~IsNone(results.simple_payback)
    /\ IsNone(results.discounted_payback)
    /\ \E y \in 1..Len(net_cash) : CumNet[y] < 0

\* C10: bc_ratio is present exactly when a discount rate is given and the net
\* cash of year 0 is negative, and is then (NPV + cost) / cost with
\* cost = -(net cash of year 0); without a discount rate npv and
\* discounted_payback are absent as well.
C10_BenefitCost ==
    pc = "analyzed" =>
        /\ ~IsNone(results.bc_ratio) <=> (~IsNone(inp.discount_rate) /\ net_cash[1] < 0)
        /\ ~IsNone(results.bc_ratio) =>
              results.bc_ratio
                  = Some(Ratio(DiscountedTotal
                                   + (-net_cash[1]) * Pow(OnePlusRate(Val(inp.discount_rate)).num, inp.duration),
                               (-net_cash[1]) * Pow(OnePlusRate(Val(inp.discount_rate)).num, inp.duration)))
        /\ IsNone(inp.discount_rate) =>
              /\ IsNone(results.npv)
              /\ IsNone(results.discounted_payback)
              /\ IsNone(results.bc_ratio)

\* A discounted investment whose benefits exceed its cost.
C10_Witness ==
    /\ pc = "analyzed"
    /\ ~IsNone(inp.discount_rate)
    /\ Val(inp.discount_rate) > 0
    /\ net_cash[1] < 0
    /\ ~IsNone(results.bc_ratio)
    /\ Val(results.bc_ratio).num > Val(results.bc_ratio).den
    /\ Val(results.npv).num > 0

-----------------------------------------------------------------------------
(* Properties of the cash flow analysis: absent values, the table, the items *)

\* A result that is a finite number: a quotient with a denominator, or the
\* rate of a root.
FiniteNumber(v) == "root_of" \in DOMAIN v \/ IsFinite(v)

AbsentOrFinite(opt) == IsNone(opt) \/ FiniteNumber(Val(opt))

\* C11: analyze_cash_flow returns a result for every input, and in it irr,
\* npv, simple_payback, discounted_payback and bc_ratio are each absent or a
\* finite number; a net cash flow without a rate of return has irr absent.
C11_AbsentOrFinite ==
    /\ err = ""
    /\ pc = "analyzed" =>
          /\ AbsentOrFinite(results.irr)
          /\ AbsentOrFinite(results.npv)
          /\ AbsentOrFinite(results.simple_payback)
          /\ AbsentOrFinite(results.discounted_payback)
          /\ AbsentOrFinite(results.bc_ratio)
          /\ SignChanges(net_cash, 0) = 0 => IsNone(results.irr)

\* C12: for every item class and every duration >= 0, cash_flow returns
\* duration + 1 values, one for each of the years 0..duration.
C12_OneValuePerYear ==
    /\ err = ""
    /\ pc = "produced" => DOMAIN results = 1..(inp.duration + 1)

\* The sequence that item k of the input produces.
ItemFlow(k) == cash_flow(inp.cash_flow_items[k], inp.duration)

\* The label of item k is that of no later item and of neither fixed column,
\* so that the column placed for item k is still the one under its label.
ColumnKept(k) ==
    /\ inp.cash_flow_items[k].label \notin {"Year", "Net Cash"}
    /\ \A j \in (k + 1)..Len(inp.cash_flow_items) :
          inp.cash_flow_items[j].label # inp.cash_flow_items[k].label

\* C13: in the table the Year column is 0..duration, Net Cash is in every
\* year the sum of the items' sequences, and the columns placed for the items
\* are not altered by the accumulation.
C13_NetCashIsSum ==
    pc = "analyzed" =>
        /\ results.cash_flow_table["Year"] = [y \in 1..(inp.duration + 1) |-> y - 1]
        /\ \A y \in 1..(inp.duration + 1) :
              results.cash_flow_table["Net Cash"][y]
                  = SumSeq([k \in 1..Len(inp.cash_flow_items) |-> ItemFlow(k)[y]])
        /\ \A k \in 1..Len(inp.cash_flow_items) :
              ColumnKept(k) =>
                  results.cash_flow_table[inp.cash_flow_items[k].label] = ItemFlow(k)

\* C14: the table holds one column for each item besides Year and Net Cash,
\* and the column of each item is the sequence that the item produces.
C14_OneColumnPerItem ==
    pc = "analyzed" =>
        /\ Cardinality(DOMAIN results.cash_flow_table) = Len(inp.cash_flow_items) + 2
        /\ \A k \in 1..Len(inp.cash_flow_items) :
              /\ inp.cash_flow_items[k].label \in DOMAIN results.cash_flow_table
              /\ results.cash_flow_table[inp.cash_flow_items[k].label] = ItemFlow(k)

\* The value of an escalating flow at year k as the spec gives it.
EscalatedAt(flow, k) ==
    IF k = 0 THEN 0
    ELSE IF ~IsNone(flow.end_year) /\ k > Val(flow.end_year) THEN 0
    ELSE flow.amount * Pow(OnePlusEscalation(flow.escalation_rate), k - 1)

\* C15: for every duration an EscalatingFlow produces 0 at year 0,
\* amount * (1 + escalation_rate)^(k-1) at the years k from 1 up to the end
\* year, and 0 after the end year.
C15_EscalatingValues ==
    (pc \in {"produced", "error"} /\ inp.flow.class = "EscalatingFlow") =>
        /\ pc = "produced"
        /\ \A k \in 0..inp.duration : results[k + 1] = EscalatedAt(inp.flow, k)

\* The values of a pattern flow as the spec gives them: the pattern's value of
\* the year, its last value in the years past the pattern.
PatternValues ==
    (pc \in {"produced", "error"} /\ inp.flow.class = "PatternFlow" /\ Len(inp.flow.pattern) > 0) =>
        /\ pc = "produced"
        /\ DOMAIN results = 1..(inp.duration + 1)
        /\ \A k \in 0..inp.duration :
              results[k + 1]
                  = inp.flow.amount * (IF k < Len(inp.flow.pattern)
                                       THEN inp.flow.pattern[k + 1]
                                       ELSE inp.flow.pattern[Len(inp.flow.pattern)])

\* C16: a PatternFlow with a pattern that is not empty produces, for every
\* duration, amount * pattern[k] in the years of the pattern and
\* amount * (last pattern value) in the later years up to the duration, ignores
\* the pattern's entries past the duration, and leaves the stored pattern as
\* it was.
C16_PatternExtended == [](PatternValues) /\ [][inp' = inp]_vars

\* A pattern shorter than the cash flow, extended with a last value that is
\* not its first one.
C16_Witness ==
    /\ pc = "produced"
    /\ inp.flow.class = "PatternFlow"
    /\ Len(inp.flow.pattern) >= 2
    /\ Len(inp.flow.pattern) < inp.duration + 1
    /\ inp.flow.pattern[1] # inp.flow.pattern[Len(inp.flow.pattern)]
    /\ results[inp.duration + 1] = inp.flow.amount * inp.flow.pattern[Len(inp.flow.pattern)]
    /\ results[inp.duration + 1] # 0

\* C17: for every interval that PeriodicAmount accepts and every duration, the
\* produced sequence is amount * (1 + escalation_rate)^year at the years that
\* are positive multiples of the interval and 0 at every other year, year 0
\* included.
C17_PeriodicValues ==
    (pc \in {"produced", "error"} /\ inp.flow.class = "PeriodicAmount") =>
        /\ pc = "produced"
        /\ \A k \in 0..inp.duration :
              results[k + 1]
                  = IF k >= 1 /\ inp.flow.interval >= 1 /\ k % Max(inp.flow.interval, 1) = 0
                    THEN inp.flow.amount * Pow(OnePlusEscalation(inp.flow.escalation_rate), k)
                    ELSE 0

-----------------------------------------------------------------------------
(* Properties of fit_model *)

\* A fit of the input that uses no cache and no object made earlier.
FreshFit(fit_inp) == fit_model_json_input(EmptyDict, inp_cacheable(fit_inp))

\* The output of a fit that has returned, given by value.
MadeValue(made) == OutputValue(made.heap, made.out)

\* Two inputs of equal content: their dicts hold the same items, in any order.
SameContent(a, b) ==
    /\ a.building_description = b.building_description
    /\ a.electric_use_by_month = b.electric_use_by_month
    /\ DictOf(a.actual_fuel_by_type) = DictOf(b.actual_fuel_by_type)

\* The call has returned an output.
Returned == pc \in {"first", "hit", "rebuilt"}

\* C18: whatever calls came before, the output fit_model returns for an
\* input is the output of a fresh fit of that input (and it raises exactly
\* when the fresh fit raises), whether the entry was computed for the first
\* time, served from the cache or rebuilt after its eviction; every entry the
\* cache holds is the fresh fit of its key; the cache never holds more than
\* its size; and inputs of equal content get the same cache key whatever
\* the order of their dictionary keys.
C18_CachedEqualsFresh ==
    /\ Returned =>
          /\ FreshFit(inp).raises = ""
          /\ OutputValue(heap, results) = MadeValue(FreshFit(inp))
    /\ pc = "error" => FreshFit(inp).raises = err
    /\ Len(cache) <= CacheSize
    /\ \A i \in DOMAIN cache :
          OutputValue(heap, cache[i].out) = MadeValue(FreshFit(model_validate_json(cache[i].key)))
    /\ pc # "idle" =>
          \A other \in FitInputs :
              SameContent(inp, other) => inp_cacheable(inp) = inp_cacheable(other)

\* An entry that had been evicted from the full cache is rebuilt by a call
\* whose input writes its fuels in another order than the key does.
C18_Witness ==
    /\ pc = "rebuilt"
    /\ Len(cache) = CacheSize
    /\ inp.actual_fuel_by_type # SortItems(inp.actual_fuel_by_type)
    /\ results.fuel_fit_info["propane"][2] > 0

\* The objects a building object at address a consists of.
ObjectsOf(h, a) ==
    {a} \cup {h[a].conventional_heat[i] : i \in {j \in 1..2 : h[a].conventional_heat[j] # None}}

\* The fields of a building the fit leaves alone.
SameFixedFields(b, given) ==
    /\ b.bldg_floor_area = given.bldg_floor_area
    /\ b.ev_charging_miles_per_day = given.ev_charging_miles_per_day
    /\ b.solar_kw = given.solar_kw
    /\ \A i \in 1..2 :
          /\ b.conventional_heat[i].heat_fuel_id = given.conventional_heat[i].heat_fuel_id
          /\ b.conventional_heat[i].heating_effic = given.conventional_heat[i].heating_effic

\* The seven fitted parameters of a building lie within the bounds of the fit.
ParamsWithinBounds(b) ==
    LET x == <<b.ua_per_ft2, b.conventional_heat[1].frac_load_served, b.misc_elec_kwh_per_day,
               b.misc_elec_seasonality, b.ev_miles_per_kwh, b.ev_seasonality, b.solar_kwh_per_kw>>
    IN  /\ \A k \in 1..7 : FitBounds(b)[k][1] <= x[k] /\ x[k] <= FitBounds(b)[k][2]
        /\ b.conventional_heat[2].frac_load_served = 100 - x[2]

\* C19: after a call of fit_model, whether it returned or raised, every
\* field of the caller's building description, its two heating systems
\* included, has the value it had before the call, and so has the building
\* of the input object the ModelFitter was made from; the building returned
\* is another object that shares no heating system object with either, it
\* carries the fitted parameters, and its other fields are those supplied.
C19_CallerUntouched ==
    pc # "idle" =>
        /\ ValueAt(heap, CallerAddress) = inp.building_description
        /\ ParsedAddress \in DOMAIN heap =>
              ValueAt(heap, ParsedAddress) = inp.building_description
        /\ Returned =>
              /\ ObjectsOf(heap, results.building_description)
                    \cap ObjectsOf(heap, CallerAddress) = {}
              /\ ParsedAddress \in DOMAIN heap =>
                    ObjectsOf(heap, results.building_description)
                        \cap ObjectsOf(heap, ParsedAddress) = {}
              /\ SameFixedFields(ValueAt(heap, results.building_description),
                                 inp.building_description)
              /\ ParamsWithinBounds(ValueAt(heap, results.building_description))

\* A fit has returned a building whose ua_per_ft2 and whose two
\* frac_load_served values differ from those the caller supplied.
C19_Witness ==
    /\ pc = "first"
    /\ ValueAt(heap, results.building_description).ua_per_ft2
          # inp.building_description.ua_per_ft2
    /\ \A i \in 1..2 :
          ValueAt(heap, results.building_description).conventional_heat[i].frac_load_served
              # inp.building_description.conventional_heat[i].frac_load_served
    /\ ValueAt(heap, CallerAddress) = inp.building_description

\* The fuels of the library.
FitFuels == {"elec", "oil1", "propane", "wood"}

\* The actual use of a fuel in the input of the call, 0 for a fuel not given;
\* for electricity the total of the monthly use.
ActualUse(f) ==
    IF f = "elec" THEN SumSeq(inp.electric_use_by_month) * 1000
    ELSE DictGet(DictOf(inp.actual_fuel_by_type), f, 0)

\* The use of a fuel the model gives for the building returned.
ModeledUse(f) ==
    DictGet(FitModelResults(ValueAt(heap, results.building_description)).fuel_use_units, f, 0)

\* The entry of a listed fuel is (actual, modeled, error), the error being
\* the relative error, or the sentinel when the actual use is 0.
TripleAsClaimed(f) ==
    LET triple == results.fuel_fit_info[f]
    IN  /\ triple[1] = ActualUse(f)
        /\ triple[2] = ModeledUse(f)
        /\ ActualUse(f) # 0 =>
              triple[3] \in {Ratio(ModeledUse(f) - ActualUse(f), ActualUse(f)),
                             Ratio(ActualUse(f) - ModeledUse(f), -ActualUse(f))}
        /\ ActualUse(f) = 0 =>
              triple[3] = Ratio(IF ModeledUse(f) < 0 THEN -999 ELSE 999, 1000)

\* The fuels with a positive actual or modeled use are listed, and so is
\* electricity.
UsedFuelsListed ==
    /\ "elec" \in DOMAIN results.fuel_fit_info
    /\ \A f \in FitFuels :
          (ActualUse(f) > 0 \/ ModeledUse(f) > 0) => f \in DOMAIN results.fuel_fit_info

\* C20: in the output of a fit every fuel with a positive actual or modeled
\* use is listed and electricity is always listed; each entry is (actual,
\* modeled, error) with error = (modeled - actual) / actual when actual is
\* not 0 and the sentinel 0.999 with the sign of modeled when it is 0; and
\* no error is infinite or NaN.
C20_ErrorDefined ==
    Returned =>
        /\ UsedFuelsListed
        /\ \A f \in DOMAIN results.fuel_fit_info :
              /\ TripleAsClaimed(f)
              /\ IsFinite(results.fuel_fit_info[f][3])

-----------------------------------------------------------------------------
(* Properties of the heating systems, the dispatch order and the load fraction *)

\* C21: a building description may carry one or two conventional heating
\* systems.  With the second system absent model_building raises nothing and
\* every month's whole conventional load is the primary load; with two
\* systems each month's primary and secondary loads are frac_load_served x
\* conventional load, and they add up to the conventional load (to the
\* rounding of the fixed point) when the two fractions add up to 1.
C21_OneOrTwoSystems ==
    /\ (Len(dfh) > 0 /\ IsNone(inp.conventional_heat[2])) => pc # "error"
    /\ pc = "monthly" =>
          \A m \in Months :
              IF IsNone(inp.conventional_heat[2])
              THEN dfm[m].conventional_load_mmbtu_primary = dfm[m].conventional_load_mmbtu
              ELSE /\ dfm[m].conventional_load_mmbtu_primary
                        = FracOf(inp.conventional_heat[1].frac_load_served,
                                 dfm[m].conventional_load_mmbtu)
                   /\ dfm[m].conventional_load_mmbtu_secondary
                        = FracOf(Val(inp.conventional_heat[2]).frac_load_served,
                                 dfm[m].conventional_load_mmbtu)
                   /\ inp.conventional_heat[1].frac_load_served
                        + Val(inp.conventional_heat[2]).frac_load_served = 100
                      => dfm[m].conventional_load_mmbtu
                            - (dfm[m].conventional_load_mmbtu_primary
                               + dfm[m].conventional_load_mmbtu_secondary) \in {-1, 0, 1}

-----------------------------------------------------------------------------
(* Properties of analyze_retrofit *)

\* The column of the cash flow table with the label, year 0 first.
RetrofitColumn(label) == results.financial.cash_flow_table[label]

RetrofitLabels == DOMAIN results.financial.cash_flow_table

\* A column whose only amount is the one of year 0.
YearZeroOnly(label, amount) ==
    /\ label \in RetrofitLabels
    /\ RetrofitColumn(label)
          = [y \in 1..(inp.retrofit_cost.retrofit_life + 1) |-> IF y = 1 THEN amount ELSE 0]

\* The financing columns of a retrofit with a loan.
LoanColumns ==
    /\ YearZeroOnly("Retrofit Downpayment",
                    -(inp.retrofit_cost.capital_cost - inp.retrofit_cost.loan_amount))
    /\ "Retrofit Cost" \notin RetrofitLabels
    /\ "Loan Payment" \in RetrofitLabels
    /\ \A y \in 1..(inp.retrofit_cost.retrofit_life + 1) :
          RetrofitColumn("Loan Payment")[y] # 0
              <=> (y >= 2 /\ y - 1 <= Val(inp.retrofit_cost.loan_term))
    /\ \A y \in 2..(inp.retrofit_cost.retrofit_life + 1) :
          RetrofitColumn("Loan Payment")[y] \in {0, RetrofitColumn("Loan Payment")[2]}

\* The financing column of a retrofit paid at once.
PaidColumns ==
    /\ YearZeroOnly("Retrofit Cost", -inp.retrofit_cost.capital_cost)
    /\ "Retrofit Downpayment" \notin RetrofitLabels
    /\ "Loan Payment" \notin RetrofitLabels

\* The rebate column is there exactly for a positive rebate.
RebateColumn ==
    IF inp.retrofit_cost.rebate_amount > 0
    THEN YearZeroOnly("Rebate", inp.retrofit_cost.rebate_amount)
    ELSE "Rebate" \notin RetrofitLabels

\* The energy and operating cost columns are 0 in year 0.
EnergyColumnsStartAtZero ==
    /\ \A label \in {"Electricity Cost", "Operating Cost Change"} :
          label \in RetrofitLabels /\ RetrofitColumn(label)[1] = 0
    /\ "Fuel Cost" \in RetrofitLabels => RetrofitColumn("Fuel Cost")[1] = 0

\* C22: every retrofit analysis is made and its financing items are, with a
\* loan, the year-0 down payment -(capital_cost - loan_amount) and a level
\* loan payment that is not 0 exactly in the years 1..loan_term, otherwise
\* the single year-0 item -capital_cost; a year-0 rebate item exactly when
\* rebate_amount > 0; the electricity, fuel and operating cost flows are 0 in
\* year 0, so that Net Cash of year 0 is -(capital_cost - loan_amount) +
\* rebate_amount.
C22_FinancingItems ==
    pc # "retrofit" =>
        /\ pc = "retrofit_analyzed"
        /\ IF inp.retrofit_cost.loan_amount > 0 THEN LoanColumns ELSE PaidColumns
        /\ RebateColumn
        /\ EnergyColumnsStartAtZero
        /\ RetrofitColumn("Net Cash")[1]
              = -(inp.retrofit_cost.capital_cost - inp.retrofit_cost.loan_amount)
                + inp.retrofit_cost.rebate_amount


\* The base case of a returned analysis has no heat-pump load and no
\* heat-pump electricity in any month.
BaseCaseWithoutHeatPump ==
    \A m \in Months :
        /\ results.base_case_detail.monthly_results[m].hp_load_mmbtu = 0
        /\ results.base_case_detail.monthly_results[m].hp_kwh = 0

\* co2_lbs_saved is the base case's annual CO2 less the retrofit case's.
Co2SavedIsDifference ==
    results.misc.co2_lbs_saved
        = results.base_case_detail.annual_results.co2_lbs
          - results.with_retrofit_detail.annual_results.co2_lbs

\* C23: for every retrofit analysis the base case is simulated with the heat
\* pump removed (heat-pump load and kWh 0 in every month, the whole load
\* conventional), the retrofit case with the heat pump, and co2_lbs_saved is
\* the base annual CO2 less the retrofit annual CO2.
C23_BaseCaseWithoutHeatPump ==
    pc = "retrofit_analyzed" =>
        /\ BaseCaseWithoutHeatPump
        /\ results.base_case_detail = Simulate([inp.pre_bldg EXCEPT !.heat_pump = None], tmy)
        /\ results.with_retrofit_detail = Simulate(inp.post_bldg, tmy)
        /\ Co2SavedIsDifference

-----------------------------------------------------------------------------
(* Properties of model_building calls that overlap                         *)

\* The monthly sums a call returns are those of the call run alone.
ReturnsAsAlone(c) ==
    calls[c].pc = "done" =>
        calls[c].dfm = SimMonthly(SimFrame(calls[c].inp, tmy),
                                  [i \in DOMAIN tmy |->
                                      SimHour(calls[c].inp, SimFrame(calls[c].inp, tmy)[i])])

\* The weather columns of the frame are as they were loaded.
WeatherAsLoaded == WeatherRows(shared.frame) = tmy

\* C24: model_building calls for one climate site that interleave each return
\* the results they return alone, none reads an hourly value another call
\* wrote, and the weather series stays as loaded.
C24_NoSharedState ==
    /\ \A c \in Calls :
          /\ ReturnsAsAlone(c)
          /\ calls[c].pc # "error"
          /\ ~calls[c].foreign
    /\ WeatherAsLoaded

-----------------------------------------------------------------------------
(* Properties of the price overrides                                       *)

\* The rows of df_util are as they were loaded.
ReferenceUnchanged ==
    \A u \in DOMAIN UtilityData : heap[u] = UtilityData[u]

\* The record a call without overrides goes on with: the row of the
\* utility, NaN cells None.
OriginalUtility(util_id) ==
    [UtilityData[UtilRow(util_id)] EXCEPT
        !.id = util_id,
        !.PCE = IF @ = NaN THEN None ELSE @]

\* A call carrying overrides goes on with them.
OverridesApplied(call) ==
    /\ ~IsNone(call.prices.elec_rate_override) =>
          /\ call.elec_util.Blocks = <<<<None, Flt(Val(call.prices.elec_rate_override))>>>>
          /\ call.elec_util.DemandCharge = Flt(0)
    /\ ~IsNone(call.prices.pce_rate_override) =>
          call.elec_util.PCE = Flt(Val(call.prices.pce_rate_override))
    /\ ~IsNone(call.prices.customer_charge_override) =>
          call.elec_util.CustomerChg = Flt(Val(call.prices.customer_charge_override))
    /\ ~IsNone(call.prices.co2_lbs_per_kwh_override) =>
          call.elec_util.CO2 = Flt(Val(call.prices.co2_lbs_per_kwh_override))

\* C25: price overrides act only on the call that carries them: the rows of
\* df_util stay as loaded, and every look-up or price set-up without overrides
\* goes on with the utility's original blocks, demand charge, PCE, customer
\* charge and CO2, whatever calls came before.
C25_OverridesLocal ==
    /\ ReferenceUnchanged
    /\ \A i \in DOMAIN calls :
          /\ OverridesApplied(calls[i])
          /\ calls[i].prices = NoOverrides(calls[i].prices.utility_id) =>
                calls[i].elec_util = OriginalUtility(calls[i].prices.utility_id)

\* A price set-up with every override, then a call for the same utility without.
C25_Witness ==
    /\ Len(calls) >= 2
    /\ \E i \in DOMAIN calls : \E j \in DOMAIN calls :
          /\ i < j
          /\ calls[i].prices.utility_id = calls[j].prices.utility_id
          /\ ~IsNone(calls[i].prices.elec_rate_override)
          /\ ~IsNone(calls[i].prices.pce_rate_override)
          /\ ~IsNone(calls[i].prices.customer_charge_override)
          /\ ~IsNone(calls[i].prices.co2_lbs_per_kwh_override)
          /\ calls[i].elec_util # OriginalUtility(calls[i].prices.utility_id)
          /\ calls[j].prices = NoOverrides(calls[j].prices.utility_id)
          /\ calls[j].elec_util = OriginalUtility(calls[j].prices.utility_id)

-----------------------------------------------------------------------------
(* Properties of the reference data                                        *)

\* More than LIB_TIMEOUT hours have passed since the last download while the
\* process serves.
DataStale ==
    pc = "serving" /\ shared.now - shared.last_lib_download_ts > LIB_TIMEOUT

\* The datasets a look-up saw are complete and of one download.
SeenWhole(call) ==
    \A d \in Datasets :
        /\ call.seen[d] # None
        /\ call.seen[d].stage = "ready"

\* C26: whenever more than LIB_TIMEOUT hours have passed since
\* last_lib_download_ts while look-ups are served, refresh_data runs again
\* (the download time advances), and no look-up sees a partly prepared table.
C26_RefreshedOnTimer ==
    /\ DataStale ~> ~DataStale
    /\ [](\A i \in DOMAIN calls : SeenWhole(calls[i]))

-----------------------------------------------------------------------------
(* Properties of global_exception_handler                                  *)

\* The response is a 500 whose body is the generic detail and a timestamp.
GenericFailure(response) ==
    /\ response.status_code = 500
    /\ DOMAIN response.content = {"detail", "timestamp"}
    /\ response.content.detail = GenericDetail
    /\ response.content.timestamp = shared.now

\* The traceback of the exception was logged once, with the method and path.
LoggedOnce ==
    /\ Len(shared.log) = 1
    /\ shared.log[1].method = inp.method
    /\ shared.log[1].path = inp.path
    /\ shared.log[1].traceback = [type |-> inp.outcome.type, message |-> inp.outcome.message]

\* C27: an exception that escapes a request handler ends in exactly one HTTP
\* 500 response holding only the generic detail and a timestamp, its full
\* traceback is logged once with the request's method and path, and the
\* process serves the requests that follow.
C27_GenericFailure ==
    /\ pc = "done" /\ inp.outcome.type # "" =>
          /\ Len(results) = 1
          /\ GenericFailure(results[1])
          /\ LoggedOnce
    /\ pc = "done" /\ inp.outcome.type = "" =>
          /\ Len(results) = 1
          /\ results[1].status_code = 200
          /\ shared.log = <<>>

\* A request failed with a message quoting its input, and so did an earlier one.
C27_Witness ==
    /\ pc = "done"
    /\ shared.failed
    /\ inp.outcome.type = "KeyError"
    /\ inp.outcome.message = "city_id 999"
    /\ Len(results) = 1
    /\ results[1].status_code = 500

-----------------------------------------------------------------------------
(* Properties of the running hour                                          *)

\* r1 < r2 for quotients of positive denominators, by their continued fractions.
RECURSIVE QuotientLess(_, _, _, _)
QuotientLess(n1, d1, n2, d2) ==
    IF n1 \div d1 # n2 \div d2 THEN n1 \div d1 < n2 \div d2
    ELSE IF n2 % d2 = 0 THEN FALSE
    ELSE IF n1 % d1 = 0 THEN TRUE
    ELSE QuotientLess(d2, n2 % d2, d1, n1 % d1)

RatioLess(r1, r2) == QuotientLess(r1.num, r1.den, r2.num, r2.den)

\* The depression of the hour's building and temperature with the doors set.
DepressionWithDoors(doors_open) ==
    temp_depression(inp.ua_per_ft2, balance_point_home(inp), tmy[1].db_temp, doors_open)

\* The tolerance of the configured band in tenths of a degree: 2, 5, 10 F.
BandTolerance ==
    CASE Val(inp.heat_pump).bedroom_temp_tolerance = "low" -> 20
      [] Val(inp.heat_pump).bedroom_temp_tolerance = "med" -> 50
      [] Val(inp.heat_pump).bedroom_temp_tolerance = "high" -> 100

\* The depression of the hour is within the band.
WithinBand ==
    ~RatioLess(Ratio(BandTolerance, 1), hourly[1].temp_depress)

\* The candidate load is the exposed share of the home load, the garage load
\* exactly when the garage is served and the adjacent share exactly when the
\* depression is within the band; the heat pump takes it up to its output.
CandidateAsClaimed ==
    /\ hourly[1].candidate
          = (hourly[1].home_load * Val(inp.heat_pump).frac_exposed_to_hp) \div 100
            + (IF Val(inp.heat_pump).serves_garage THEN hourly[1].garage_load ELSE 0)
            + (IF WithinBand
               THEN (hourly[1].home_load * Val(inp.heat_pump).frac_adjacent_to_hp) \div 100
               ELSE 0)
    /\ hourly[1].hp_ld = Min(hourly[1].candidate, tmy[1].max_hp_output)

-----------------------------------------------------------------------------
(* Properties of hp_load_frac                                              *)

\* The quotient is a number between 0 and 1.
UnitFraction(r) ==
    /\ IsFinite(r)
    /\ IF r.den > 0 THEN 0 <= r.num /\ r.num <= r.den
       ELSE r.den <= r.num /\ r.num <= 0

\* C29: hp_load_frac is a defined number in [0,1] for every month and for the
\* annual record, also for a period whose total heating load is 0.
C29_LoadFracDefined ==
    /\ pc = "monthly" => \A m \in DOMAIN dfm : UnitFraction(dfm[m].hp_load_frac)
    /\ pc = "annual" => UnitFraction(annual.hp_load_frac)

-----------------------------------------------------------------------------
(* general/dict2d.py used on its own: a caller builds a dict, constructs a
   Dict2d from it, constructs a second Dict2d without arguments, and then
   calls the methods of the class and writes to the dicts it holds.
   heap holds the dict objects; shared is
     [caller   : address of the dict the first Dict2d was constructed from,
      objs     : the Dict2d objects,
      added    : per object, the total of the values added at each key pair
                 (the initial values count as added at construction),
      held     : the caller's dict as the caller last wrote it, by value,
      returned : what the last call returned];
   calls is the log of the calls made. *)

MaxOps == 3
MaxObjects == 3

Key1s == {"oil1", "elec"}
Key2s == {"space", "dhw"}
AddedValues == {1, 2}

\* The sum of the values of a dict given by value: sum(inner.values())
RECURSIVE SumValues(_, _)
SumValues(d, keys) ==
    IF keys = {} THEN 0
    ELSE LET key == CHOOSE k \in keys : TRUE
         IN  d[key] + SumValues(d, keys \ {key})

\* Dict2d.get (lines 31-36)
Dict2d_get(h, self, key1, key2) ==
    IF key1 \in DOMAIN h[self.store]
    THEN DictGet(h[h[self.store][key1]], key2, 0)
    ELSE 0

\* Dict2d.add's return value (lines 24-26, 29)
new_value(h, self, key1, key2, value) == Dict2d_get(h, self, key1, key2) + value

\* Dict2d.sum_key1 (lines 43-50)
sum_key1(h, self) ==
    [k \in DOMAIN h[self.store] |->
        SumValues(h[h[self.store][k]], DOMAIN h[h[self.store][k]])]

\* Dict2d.sum_key2 (lines 52-60)
sum_key2(h, self) ==
    LET all == Dict2d_get_all(h, self)
    IN  [k \in UNION {DOMAIN all[k1] : k1 \in DOMAIN all} |->
            SumValues([k1 \in {q \in DOMAIN all : k \in DOMAIN all[q]} |-> all[k1][k]],
                      {q \in DOMAIN all : k \in DOMAIN all[q]})]

\* copy.deepcopy(self.store) as new dict objects: the heap with the copy's
\* inner dicts and then its outer dict appended (the copy is at Len of it).
DeepCopyStore(h, self) ==
    LET all == Dict2d_get_all(h, self)
    IN  StoreDict(h, all, DOMAIN all, EmptyDict)

\* Dict2d.copy (lines 71-74): the constructor run on the deep copy
Dict2d_copy(h, self) ==
    LET copied == DeepCopyStore(h, self)
    IN  Dict2d(copied, Some(Len(copied)))

\* The caller's own statement d[key1][key2] = value on the dict at address d,
\* with d[key1] = {key2: value} when key1 is not in it.
CallerWrite(h, d, key1, key2, value) ==
    IF key1 \in DOMAIN h[d]
    THEN [h EXCEPT ![h[d][key1]] = DictSet(@, key2, value)]
    ELSE [Append(h, DictSet(EmptyDict, key2, value)) EXCEPT ![d] = DictSet(@, key1, Len(h) + 1)]

\* The two-level dict at address d, by value
DictAt(h, d) == [k1 \in DOMAIN h[d] |-> h[h[d][k1]]]

\* The totals of a two-level dict given by value, on every key pair
TotalsOf(m) ==
    [p \in Key1s \X Key2s |->
        IF p[1] \in DOMAIN m /\ p[2] \in DOMAIN m[p[1]] THEN m[p[1]][p[2]] ELSE 0]

\* The dicts a caller constructs the first Dict2d from
CallerDicts ==
    {EmptyDict,
     [k1 \in {"oil1"} |-> [k2 \in {"space"} |-> 1]],
     [k1 \in {"oil1", "elec"} |-> [k2 \in {"space"} |-> IF k1 = "oil1" THEN 1 ELSE 2]]}

InitDict ==
    /\ pc = "dict2d"
    /\ err = ""
    /\ inp = <<>>
    /\ tmy = <<>>
    /\ dfh = <<>>
    /\ hp_load = <<>>
    /\ conventional_load = <<>>
    /\ hp_capacity_used = <<>>
    /\ hourly = <<>>
    /\ dfm = <<>>
    /\ df_monthly = <<>>
    /\ annual = <<>>
    /\ net_cash = <<>>
    /\ results = <<>>
    /\ cache = <<>>
    /\ evicted = <<>>
    /\ calls = <<>>
    /\ \E d \in CallerDicts :
          LET stored == StoreDict(<<>>, d, DOMAIN d, EmptyDict)
              first  == Dict2d(stored, Some(Len(stored)))
              second == Dict2d(first.heap, None)
          IN  /\ heap = second.heap
              /\ shared = [caller   |-> Len(stored),
                           objs     |-> <<first.self, second.self>>,
                           added    |-> <<TotalsOf(d), TotalsOf(EmptyDict)>>,
                           held     |-> d,
                           returned |-> None]

DictUnchanged == <<pc, err, bvars, df_monthly, annual, evars, fvars>>

\* o.add(key1, key2, value)
DictAdd(o, key1, key2, value) ==
    /\ pc = "dict2d"
    /\ Len(calls) < MaxOps
    /\ heap' = Dict2d_add(heap, shared.objs[o], key1, key2, value)
    /\ shared' = [shared EXCEPT !.added[o][<<key1, key2>>] = @ + value,
                                !.returned = Some(new_value(heap, shared.objs[o], key1, key2, value))]
    /\ calls' = Append(calls, [kind |-> "add", obj |-> o, key |-> <<key1, key2>>])
    /\ UNCHANGED DictUnchanged

\* o.add_object(obj): the values added are those obj holds
DictAddObject(o, obj) ==
    /\ pc = "dict2d"
    /\ Len(calls) < MaxOps
    /\ heap' = Dict2d_add_object(heap, shared.objs[o], shared.objs[obj])
    /\ shared' = [shared EXCEPT
                    !.added[o] = [p \in Key1s \X Key2s |->
                                     @[p] + Dict2d_get(heap, shared.objs[obj], p[1], p[2])],
                    !.returned = Some(shared.objs[o])]
    /\ calls' = Append(calls, [kind |-> "add_object", obj |-> o, key |-> <<>>])
    /\ UNCHANGED DictUnchanged

\* o.get(key1, key2)
DictGetCall(o, key1, key2) ==
    /\ pc = "dict2d"
    /\ Len(calls) < MaxOps
    /\ shared' = [shared EXCEPT !.returned = Some(Dict2d_get(heap, shared.objs[o], key1, key2))]
    /\ calls' = Append(calls, [kind |-> "get", obj |-> o, key |-> <<key1, key2>>])
    /\ UNCHANGED <<DictUnchanged, heap>>

\* o.get_all(): the deep copy is a new dict, whose address is returned
DictGetAll(o) ==
    /\ pc = "dict2d"
    /\ Len(calls) < MaxOps
    /\ heap' = DeepCopyStore(heap, shared.objs[o])
    /\ shared' = [shared EXCEPT !.returned = Some(Len(heap'))]
    /\ calls' = Append(calls, [kind |-> "get_all", obj |-> o, key |-> <<>>])
    /\ UNCHANGED DictUnchanged

\* o.sum_key1() and o.sum_key2()
DictSums(o) ==
    /\ pc = "dict2d"
    /\ Len(calls) < MaxOps
    /\ \E kind \in {"sum_key1", "sum_key2"} :
          /\ shared' = [shared EXCEPT !.returned =
                           Some(IF kind = "sum_key1" THEN sum_key1(heap, shared.objs[o])
                                                    ELSE sum_key2(heap, shared.objs[o]))]
          /\ calls' = Append(calls, [kind |-> kind, obj |-> o, key |-> <<>>])
    /\ UNCHANGED <<DictUnchanged, heap>>

\* o.copy(): the copy holds what o holds at the time of the call
DictCopy(o) ==
    /\ pc = "dict2d"
    /\ Len(calls) < MaxOps
    /\ Len(shared.objs) < MaxObjects
    /\ LET made == Dict2d_copy(heap, shared.objs[o])
       IN  /\ heap' = made.heap
           /\ shared' = [shared EXCEPT
                           !.objs = Append(@, made.self),
                           !.added = Append(@, TotalsOf(Dict2d_get_all(heap, shared.objs[o]))),
                           !.returned = Some(made.self)]
    /\ calls' = Append(calls, [kind |-> "copy", obj |-> o, key |-> <<>>])
    /\ UNCHANGED DictUnchanged

\* The caller writes to the dictionary get_all has just returned.
ChangeReturned(key1, key2, value) ==
    /\ pc = "dict2d"
    /\ Len(calls) < MaxOps
    /\ Len(calls) > 0
    /\ calls[Len(calls)].kind = "get_all"
    /\ heap' = CallerWrite(heap, Val(shared.returned), key1, key2, value)
    /\ calls' = Append(calls, [kind |-> "change_returned", obj |-> 0, key |-> <<key1, key2>>])
    /\ UNCHANGED <<DictUnchanged, shared>>

\* The caller writes to the dictionary the first Dict2d was constructed from.
ChangeCaller(key1, key2, value) ==
    /\ pc = "dict2d"
    /\ Len(calls) < MaxOps
    /\ heap' = CallerWrite(heap, shared.caller, key1, key2, value)
    /\ shared' = [shared EXCEPT !.held = DictAt(heap', shared.caller)]
    /\ calls' = Append(calls, [kind |-> "change_caller", obj |-> 0, key |-> <<key1, key2>>])
    /\ UNCHANGED DictUnchanged

NextDict ==
    \/ \E o \in DOMAIN shared.objs, key1 \in Key1s, key2 \in Key2s, value \in AddedValues :
          DictAdd(o, key1, key2, value)
    \/ \E o \in DOMAIN shared.objs, obj \in DOMAIN shared.objs : DictAddObject(o, obj)
    \/ \E o \in DOMAIN shared.objs, key1 \in Key1s, key2 \in Key2s : DictGetCall(o, key1, key2)
    \/ \E o \in DOMAIN shared.objs : DictGetAll(o)
    \/ \E o \in DOMAIN shared.objs : DictSums(o)
    \/ \E o \in DOMAIN shared.objs : DictCopy(o)
    \/ \E key1 \in Key1s, key2 \in Key2s, value \in AddedValues : ChangeReturned(key1, key2, value)
    \/ \E key1 \in Key1s, key2 \in Key2s, value \in AddedValues : ChangeCaller(key1, key2, value)

SpecDict == InitDict /\ [][NextDict]_vars

\* Every Dict2d holds, at every key pair, the total of the values added there.
HoldsWhatWasAdded ==
    \A o \in DOMAIN shared.objs : \A p \in Key1s \X Key2s :
        Dict2d_get(heap, shared.objs[o], p[1], p[2]) = shared.added[o][p]

\* The last call, when it is an add or a get, returned the total at its pair.
ReturnsTotal ==
    (Len(calls) > 0 /\ calls[Len(calls)].kind \in {"add", "get"}) =>
        Val(shared.returned) = shared.added[calls[Len(calls)].obj][calls[Len(calls)].key]

\* The two marginal sums of every Dict2d have the same grand total.
GrandTotalsAgree ==
    \A o \in DOMAIN shared.objs :
        LET by1 == sum_key1(heap, shared.objs[o])
            by2 == sum_key2(heap, shared.objs[o])
        IN  SumValues(by1, DOMAIN by1) = SumValues(by2, DOMAIN by2)

\* The caller's dict holds what the caller last wrote to it.
CallerDataKept == DictAt(heap, shared.caller) = shared.held

\* C30: after any sequence of add and add_object calls, get(k1, k2) is the
\* sum of the values added at (k1, k2) and 0 for a pair never added, add
\* returns the new total, the reading methods (get, get_all, sum_key1,
\* sum_key2, copy) leave every store as it was, the grand totals of sum_key1
\* and sum_key2 agree, and a write to the dictionary returned by get_all, to
\* a copy, or to the dictionary a Dict2d was constructed from changes neither
\* what a Dict2d holds nor, when made through a Dict2d, the caller's own dict.
C30_RunningSums ==
    pc = "dict2d" =>
        /\ HoldsWhatWasAdded
        /\ ReturnsTotal
        /\ GrandTotalsAgree
        /\ CallerDataKept

====
